---------------------------- MODULE Spec2Model ----------------------------
(***************************************************************************)
(* Delivery calendar: the status-text parsers, the scraper loops and the   *)
(* scheduled run_check of lepisma/delivery-calendar.                       *)
(*                                                                         *)
(* Four specifications share this module:                                  *)
(*   SpecParse      one call of one parser on one text (pure functions);   *)
(*   SpecScrape     one execution of a scraper loop over a page's items;   *)
(*   Spec           main(), run_check(), Scraper.run, the calendar files;  *)
(*   SpecSerialize  generate_ics_file called twice on one order list.      *)
(*                                                                         *)
(* A status text is a sequence of tokens (strings); white space between    *)
(* tokens is not modelled.  Letter case is modelled: "Delivered" and       *)
(* "delivered" are different tokens and Lower maps one to the other.       *)
(***************************************************************************)
EXTENDS Integers, Sequences, FiniteSets, TLC

VARIABLES
    \* ---- SpecParse: one parser call
    p_fn,        \* the parser called
    p_text,      \* its argument
    p_result,    \* what it returned or raised
    p_value,     \* what a parse_delivery_date method of a Scraper returned
    p_pc,        \* "idle" | "returned" | "raised"
    \* ---- SpecScrape: one scraper loop
    s_loop,      \* which loop runs
    s_pc,        \* "loop" | "returned" | "raised"
    s_seen,      \* the items handed to the loop so far, in page order, each
                 \* with: was the parser called for it, did its processing raise
    s_orders,    \* the orders (events) list being built
    s_atFault,   \* the orders list as it stood at each exception so far
    s_page,      \* page_num of AmazonScraper.scrape_orders
    s_clicks,    \* clicks on the 'next' control so far
    \* ---- Spec: the process
    today,       \* datetime.now().date(), the reference date of a run
    prog,        \* which script runs
    env,         \* the sources whose credential pair is configured
    site,        \* per source: the items its order page shows
    main_pc,     \* main(): "start" | "first" | "loop" | "job" | "crashed"
    rc_pc,       \* run_check(): "idle" | "source" | "running" | "write" | "writing"
    rc_i,        \* run_check(): the section (source) it is in
    rc_exc,      \* the exception that ended the last run_check, "" for none
    runs,        \* number of run_check executions started
    all_orders,  \* run_check's aggregate (all_orders / combined_calendar.events)
    scraper,     \* the scraper being run: object fields and position
    driver,      \* the WebDriver of that scraper: times created, times quit
    files,       \* content of the files under ./output
    wr,          \* the write in progress: file, document, who writes
    prevDoc,     \* per file: its content after the last complete write
    calls,       \* the calls made so far in the current run_check
    \* ---- SpecSerialize: one order list serialized twice
    g_fn,        \* the serializer called
    g_orders,    \* its argument, the order list
    g_stamp,     \* the generation timestamp, datetime.now() of the calls
    g_docs       \* what each call so far wrote: a document or an exception

parseVars  == <<p_fn, p_text, p_result, p_value, p_pc>>
scrapeVars == <<s_loop, s_pc, s_seen, s_orders, s_atFault, s_page, s_clicks>>
procVars   == <<prog, env, site, main_pc, rc_pc, rc_i, rc_exc, runs,
                all_orders,
                scraper, driver, files, wr, prevDoc, calls>>
serVars    == <<g_fn, g_orders, g_stamp, g_docs>>
vars       == <<parseVars, scrapeVars, procVars, serVars, today>>

----------------------------------------------------------------------------
(* Bounds of the model.                                                    *)

MaxItems == 2
MaxRuns == 2

----------------------------------------------------------------------------
(* Calendar dates: datetime.date as [y, m, d]; datetime.datetime adds the  *)
(* time of day.  hh = -1 marks a value without time (a date).              *)

NoTime == 0 - 1

Date(y, m, d) == [y |-> y, m |-> m, d |-> d, hh |-> NoTime, mi |-> NoTime]

DateTime(dt, t) == [y |-> dt.y, m |-> dt.m, d |-> dt.d, hh |-> t.hh, mi |-> t.mi]

None == [y |-> 0, m |-> 0, d |-> 0, hh |-> NoTime, mi |-> NoTime]

IsNone(v) == v.y = 0

HasTime(v) == v.hh # NoTime

IsLeap(y) == (y % 4 = 0) /\ ((y % 100 # 0) \/ (y % 400 = 0))

DaysIn(y, m) ==
    IF m = 2 THEN (IF IsLeap(y) THEN 29 ELSE 28)
    ELSE IF m \in {4, 6, 9, 11} THEN 30 ELSE 31

\* datetime's range check: date(y, m, d) raises ValueError outside it.
ValidDate(y, m, d) ==
    /\ y >= 1 /\ y <= 9999
    /\ m >= 1 /\ m <= 12
    /\ d >= 1 /\ d <= DaysIn(y, m)

DaysBeforeMonth(y, m) ==
    LET F[k \in 1..12] == IF k = 1 THEN 0 ELSE F[k - 1] + DaysIn(y, k - 1)
    IN  F[m]

\* date.toordinal(): 1 for 0001-01-01.
Ordinal(dt) ==
    LET p == dt.y - 1
    IN  p * 365 + (p \div 4) - (p \div 100) + (p \div 400)
          + DaysBeforeMonth(dt.y, dt.m) + dt.d

\* date.weekday(): Monday is 0.
Weekday(dt) == (Ordinal(dt) + 6) % 7

\* The day after dt; year 10000 stands for "out of range".
NextDay(dt) ==
    IF dt.d < DaysIn(dt.y, dt.m) THEN [dt EXCEPT !.d = dt.d + 1]
    ELSE IF dt.m < 12 THEN [dt EXCEPT !.m = dt.m + 1, !.d = 1]
    ELSE [dt EXCEPT !.y = dt.y + 1, !.m = 1, !.d = 1]

RECURSIVE AddDays(_, _)
\* dt + timedelta(days=n), n >= 0.
AddDays(dt, n) == IF n = 0 THEN dt ELSE AddDays(NextDay(dt), n - 1)

\* date + timedelta raises OverflowError past 9999-12-31.
Overflows(dt) == dt.y > 9999


----------------------------------------------------------------------------
(* Tokens.  str.lower(), substring tests and the tables strptime and the   *)
(* regular expressions read.                                               *)

LowerMap ==
    "Arriving" :> "arriving" @@ "ARRIVING" :> "arriving" @@
    "Delivered" :> "delivered" @@ "DELIVERED" :> "delivered" @@
    "Today" :> "today" @@ "TODAY" :> "today" @@
    "Tomorrow" :> "tomorrow" @@ "TOMORROW" :> "tomorrow" @@
    "Now" :> "now" @@ "Expected" :> "expected" @@ "By" :> "by" @@
    "Delivery" :> "delivery" @@ "Not" :> "not" @@ "Package" :> "package" @@
    "Will" :> "will" @@ "In" :> "in" @@ "Within" :> "within" @@
    "Monday" :> "monday" @@ "Tuesday" :> "tuesday" @@
    "Wednesday" :> "wednesday" @@ "Thursday" :> "thursday" @@
    "Friday" :> "friday" @@ "Saturday" :> "saturday" @@
    "Sunday" :> "sunday" @@ "SUNDAY" :> "sunday" @@
    "January" :> "january" @@ "February" :> "february" @@
    "March" :> "march" @@ "April" :> "april" @@ "May" :> "may" @@
    "June" :> "june" @@ "July" :> "july" @@ "JULY" :> "july" @@
    "August" :> "august" @@ "September" :> "september" @@
    "October" :> "october" @@ "November" :> "november" @@
    "December" :> "december" @@
    "Jan" :> "jan" @@ "Feb" :> "feb" @@ "Mar" :> "mar" @@ "Apr" :> "apr" @@
    "Jun" :> "jun" @@ "Jul" :> "jul" @@ "Aug" :> "aug" @@ "Sep" :> "sep" @@
    "Oct" :> "oct" @@ "Nov" :> "nov" @@ "Dec" :> "dec" @@
    "10AM" :> "10am" @@ "2PM" :> "2pm"

\* str.lower() of one token and of a text.
Lower(tok) == IF tok \in DOMAIN LowerMap THEN LowerMap[tok] ELSE tok

LowerText(text) == [i \in 1..Len(text) |-> Lower(text[i])]

\* Lower-case tokens that hold a shorter word as a substring.
SubstrPairs == {<<"undelivered", "delivered">>, <<"delivered.", "delivered">>}

\* `w in tok` for one token.
HasSub(tok, w) == tok = w \/ <<tok, w>> \in SubstrPairs

\* `w in text` for a one-word w.
Contains(text, w) == \E i \in 1..Len(text) : HasSub(text[i], w)

\* Position of the first occurrence of the phrase ph in text, 0 if none.
PhrasePos(text, ph) ==
    LET hits == {i \in 1..(Len(text) - Len(ph) + 1) :
                    \A j \in 1..Len(ph) : text[i + j - 1] = ph[j]}
    IN  IF hits = {} THEN 0 ELSE CHOOSE i \in hits : \A k \in hits : i <= k

ContainsPhrase(text, ph) == PhrasePos(text, ph) # 0

\* text[a..b], empty when a > b.
Slice(text, a, b) == [i \in 1..(IF b >= a THEN b - a + 1 ELSE 0) |-> text[a + i - 1]]

RECURSIVE RemovePhrase(_, _)
\* text.replace(ph, "") for a phrase of whole tokens.
RemovePhrase(text, ph) ==
    LET i == PhrasePos(text, ph)
    IN  IF i = 0 THEN text
        ELSE Slice(text, 1, i - 1)
               \o RemovePhrase(Slice(text, i + Len(ph), Len(text)), ph)

\* text.replace(w + " ", ""): the word goes where a blank follows it, that
\* is everywhere but at the end of the text.
RemoveWord(text, w) ==
    LET F[i \in 0..Len(text)] ==
            IF i = 0 THEN <<>>
            ELSE IF text[i] = w /\ i < Len(text) THEN F[i - 1]
            ELSE Append(F[i - 1], text[i])
    IN  F[Len(text)]

MonthFull ==
    "january" :> 1 @@ "february" :> 2 @@ "march" :> 3 @@ "april" :> 4 @@
    "may" :> 5 @@ "june" :> 6 @@ "july" :> 7 @@ "august" :> 8 @@
    "september" :> 9 @@ "october" :> 10 @@ "november" :> 11 @@
    "december" :> 12

MonthAbbr ==
    "jan" :> 1 @@ "feb" :> 2 @@ "mar" :> 3 @@ "apr" :> 4 @@ "may" :> 5 @@
    "jun" :> 6 @@ "jul" :> 7 @@ "aug" :> 8 @@ "sep" :> 9 @@ "oct" :> 10 @@
    "nov" :> 11 @@ "dec" :> 12

\* Tokens made of digits only, with their value.
NumTok ==
    "0" :> 0 @@ "1" :> 1 @@ "2" :> 2 @@ "3" :> 3 @@ "5" :> 5 @@ "9" :> 9 @@
    "15" :> 15 @@ "16" :> 16 @@ "19" :> 19 @@ "20" :> 20 @@ "25" :> 25 @@
    "28" :> 28 @@ "29" :> 29 @@ "30" :> 30 @@ "31" :> 31 @@ "45" :> 45 @@
    "1900" :> 1900 @@ "2023" :> 2023 @@ "2024" :> 2024 @@ "2025" :> 2025 @@
    "2026" :> 2026 @@ "9999" :> 9999

IsNum(tok) == tok \in DOMAIN NumTok

\* Number of digits of a digit token (no token has a leading zero).
NumDigits(tok) ==
    LET v == NumTok[tok]
    IN  IF v < 10 THEN 1 ELSE IF v < 100 THEN 2 ELSE IF v < 1000 THEN 3 ELSE 4

\* Clock tokens <hour>[:<minute>]<am|pm>, as the time pattern's groups
\* read them: hour digits, minute digits (NoTime if none), am or pm.
TimeTok ==
    "10am" :> [hh |-> 10, mi |-> NoTime, pm |-> FALSE] @@
    "2pm" :> [hh |-> 2, mi |-> NoTime, pm |-> TRUE] @@
    "9am" :> [hh |-> 9, mi |-> NoTime, pm |-> FALSE] @@
    "1pm" :> [hh |-> 1, mi |-> NoTime, pm |-> TRUE] @@
    "8am" :> [hh |-> 8, mi |-> NoTime, pm |-> FALSE] @@
    "12pm" :> [hh |-> 12, mi |-> NoTime, pm |-> TRUE] @@
    "12am" :> [hh |-> 12, mi |-> NoTime, pm |-> FALSE] @@
    "6pm" :> [hh |-> 6, mi |-> NoTime, pm |-> TRUE] @@
    "10pm" :> [hh |-> 10, mi |-> NoTime, pm |-> TRUE] @@
    "2am" :> [hh |-> 2, mi |-> NoTime, pm |-> FALSE] @@
    "10:30am" :> [hh |-> 10, mi |-> 30, pm |-> FALSE] @@
    "2:15pm" :> [hh |-> 2, mi |-> 15, pm |-> TRUE] @@
    "2:75pm" :> [hh |-> 2, mi |-> 75, pm |-> TRUE] @@
    "25am" :> [hh |-> 25, mi |-> NoTime, pm |-> FALSE] @@
    "30pm" :> [hh |-> 30, mi |-> NoTime, pm |-> TRUE] @@
    "0am" :> [hh |-> 0, mi |-> NoTime, pm |-> FALSE]

IsTime(tok) == tok \in DOMAIN TimeTok

\* Tokens written with hyphens and no blank, with the pieces str.split('-')
\* cuts them into.
HyphenTok ==
    "15-20" :> <<"15", "20">> @@ "30-31" :> <<"30", "31">> @@
    "28-29" :> <<"28", "29">> @@
    "15-12-2024" :> <<"15", "12", "2024">> @@
    "15-12-24" :> <<"15", "12", "24">>

\* Numeric dates D/M/Y and D-M-Y: day, month, year digits as written.
NumDateTok ==
    "15-12-2024" :> [d |-> 15, m |-> 12, y |-> 2024, yd |-> 4, sep |-> "-"] @@
    "15/12/2024" :> [d |-> 15, m |-> 12, y |-> 2024, yd |-> 4, sep |-> "/"] @@
    "15-12-24" :> [d |-> 15, m |-> 12, y |-> 24, yd |-> 2, sep |-> "-"] @@
    "15/12/24" :> [d |-> 15, m |-> 12, y |-> 24, yd |-> 2, sep |-> "/"] @@
    "31/02/2025" :> [d |-> 31, m |-> 2, y |-> 2025, yd |-> 4, sep |-> "/"] @@
    "29/02/2023" :> [d |-> 29, m |-> 2, y |-> 2023, yd |-> 4, sep |-> "/"] @@
    "15/12/75" :> [d |-> 15, m |-> 12, y |-> 75, yd |-> 2, sep |-> "/"]

\* The two separators of a clock range: U+002D and the en dash U+2013
\* (written "ndash": the module is ASCII).
Hyphen == "-"

EnDash == "ndash"

----------------------------------------------------------------------------
(* What a parser call produces: the returned pair, or the exception that   *)
(* leaves the function (exc = "" when it returns).                         *)

Ret(a, b) == [s |-> a, e |-> b, exc |-> ""]

Raise(x) == [s |-> None, e |-> None, exc |-> x]

NoMatch == Ret(None, None)

\* datetime.strptime's verdict: ok = FALSE stands for ValueError.
StrpFail == [ok |-> FALSE, y |-> 0, m |-> 0, d |-> 0]

StrpOk(y, m, d) == [ok |-> TRUE, y |-> y, m |-> m, d |-> d]

\* strptime(text, '%d %B') with months = MonthFull, '%d %b' with MonthAbbr:
\* the year defaults to 1900.
StrpDM(text, months) ==
    IF /\ Len(text) = 2
       /\ IsNum(text[1]) /\ NumDigits(text[1]) <= 2
       /\ text[2] \in DOMAIN months
       /\ ValidDate(1900, months[text[2]], NumTok[text[1]])
    THEN StrpOk(1900, months[text[2]], NumTok[text[1]])
    ELSE StrpFail

\* strptime(text, '%d %B %Y') and '%d %b %Y'.
StrpDMY(text, months) ==
    IF /\ Len(text) = 3
       /\ IsNum(text[1]) /\ NumDigits(text[1]) <= 2
       /\ text[2] \in DOMAIN months
       /\ IsNum(text[3]) /\ NumDigits(text[3]) = 4
       /\ ValidDate(NumTok[text[3]], months[text[2]], NumTok[text[1]])
    THEN StrpOk(NumTok[text[3]], months[text[2]], NumTok[text[1]])
    ELSE StrpFail

\* strptime(tok, '%I%p') / '%I:%M%p' accepts the clock token.
ValidClock(t) == t.hh >= 1 /\ t.hh <= 12 /\ (t.mi = NoTime \/ (t.mi >= 0 /\ t.mi <= 59))

\* ... and the datetime.time it yields.
Clock(t) == [hh |-> (t.hh % 12) + (IF t.pm THEN 12 ELSE 0),
             mi |-> IF t.mi = NoTime THEN 0 ELSE t.mi]

\* re.search(time_pattern, text): position of the leftmost clock range
\* <clock> <dash> <clock>, 0 if none.
TimeMatchPos(text, dashes) ==
    LET hits == {i \in 1..(Len(text) - 2) :
                    IsTime(text[i]) /\ text[i + 1] \in dashes /\ IsTime(text[i + 2])}
    IN  IF hits = {} THEN 0 ELSE CHOOSE i \in hits : \A k \in hits : i <= k

RECURSIVE RemoveTimes(_, _)
\* re.sub(time_pattern, '', text).
RemoveTimes(text, dashes) ==
    LET i == TimeMatchPos(text, dashes)
    IN  IF i = 0 THEN text
        ELSE Slice(text, 1, i - 1)
               \o RemoveTimes(Slice(text, i + 3, Len(text)), dashes)

Weekdays == <<"monday", "tuesday", "wednesday", "thursday", "friday",
              "saturday", "sunday">>

\* The weekday branch: the first name of the list found in the text decides;
\* 0 if the text names no weekday.
FirstWeekday(text) ==
    LET hits == {i \in 1..7 : Contains(text, Weekdays[i])}
    IN  IF hits = {} THEN 0 ELSE CHOOSE i \in hits : \A k \in hits : i <= k

DaysAheadSameDay(i, td) == ((i - 1) - Weekday(td) + 7) % 7

\* days_ahead = (i - today.weekday() + 7) % 7, 7 when that is 0
\* (i counts from 1 here, from 0 in the code).
DaysAhead(i, td) ==
    LET a == ((i - 1) - Weekday(td) + 7) % 7
    IN  IF a = 0 THEN 7 ELSE a

\* '-' in text.
HasHyphen(text) ==
    \E i \in 1..Len(text) : text[i] = Hyphen \/ text[i] \in DOMAIN HyphenTok

\* The text with its hyphenated tokens cut at their hyphens.
Expand(text) ==
    LET Cut(tok) ==
            IF tok \in DOMAIN HyphenTok
            THEN LET ps == HyphenTok[tok]
                     G[k \in 1..Len(ps)] ==
                         IF k = 1 THEN <<ps[1]>> ELSE G[k - 1] \o <<Hyphen, ps[k]>>
                 IN  G[Len(ps)]
            ELSE <<tok>>
        F[i \in 0..Len(text)] == IF i = 0 THEN <<>> ELSE F[i - 1] \o Cut(text[i])
    IN  F[Len(text)]

\* text.split('-')[k - 1] for k = 1, 2, each part stripped; the text holds a
\* hyphen.
SplitPart(text, k) ==
    LET x == Expand(text)
        cuts == {i \in 1..Len(x) : x[i] = Hyphen}
        c1 == CHOOSE i \in cuts : \A j \in cuts : i <= j
        rest == {i \in cuts : i > c1}
        c2 == IF rest = {} THEN Len(x) + 1
              ELSE CHOOSE i \in rest : \A j \in rest : i <= j
    IN  IF k = 1 THEN Slice(x, 1, c1 - 1) ELSE Slice(x, c1 + 1, c2 - 1)

\* First success among the given strptime attempts, StrpFail if none.
FirstOk(tries) ==
    LET hits == {i \in 1..Len(tries) : tries[i].ok}
    IN  IF hits = {} THEN StrpFail
        ELSE tries[CHOOSE i \in hits : \A k \in hits : i <= k]

\* The three copies of parse_delivery_date.
ParserCopies == {"amazon_orders", "parsers", "scrapers_amazon"}

\* The separators the copy's time_pattern accepts between the two clocks.
\* In scrapers/amazon.py the class holds the hyphen and the three characters
\* of a mis-decoded en dash (U+00E2 U+20AC U+201C), not U+2013 itself.
DashClass(copy) == IF copy = "scrapers_amazon" THEN {Hyphen} ELSE {Hyphen, EnDash}

\* The "now expected by" branch of scrapers/amazon.py: the date it returns,
\* StrpFail when the branch falls through.
NowExpected(lower) ==
    IF ContainsPhrase(lower, <<"now", "expected", "by">>)
    THEN LET part == RemovePhrase(lower, <<"now", "expected", "by">>)
         IN  FirstOk(<<StrpDM(part, MonthFull), StrpDM(part, MonthAbbr)>>)
    ELSE StrpFail

\* strptime with '%d %B', then '%d %b'.
DayMonth(part) == FirstOk(<<StrpDM(part, MonthFull), StrpDM(part, MonthAbbr)>>)

\* strptime with '%d %B %Y', then '%d %b %Y'.
DayMonthYear(part) == FirstOk(<<StrpDMY(part, MonthFull), StrpDMY(part, MonthAbbr)>>)

\* return start_date, end_date + timedelta(days=1)
RangeEnd(start_date, end_date) ==
    IF Overflows(NextDay(end_date)) THEN Raise("OverflowError")
    ELSE Ret(start_date, NextDay(end_date))

\* The range from its parsed parts: st the start, withYear / noYear the end
\* read with and without a year; replace(year=...) raises ValueError for a
\* day the year does not have.
RangeOf(st, withYear, noYear, td) ==
    IF ~st.ok \/ ~ValidDate(td.y, st.m, st.d) THEN NoMatch
    ELSE IF ~withYear.ok /\ (~noYear.ok \/ ~ValidDate(td.y, noYear.m, noYear.d))
    THEN NoMatch
    ELSE RangeEnd(Date(td.y, st.m, st.d),
                  IF withYear.ok THEN Date(withYear.y, withYear.m, withYear.d)
                  ELSE Date(td.y, noYear.m, noYear.d))

\* The date-range branch: (start, end + 1 day), (None, None) on ValueError.
ParseRange(clean, td) ==
    RangeOf(DayMonth(SplitPart(RemoveWord(clean, "arriving"), 1)),
            DayMonthYear(SplitPart(RemoveWord(clean, "arriving"), 2)),
            DayMonth(SplitPart(RemoveWord(clean, "arriving"), 2)),
            td)

\* The time range of the text: whether time_pattern matched, whether both
\* clocks passed strptime, and the two times (meaningful when ok).
TimeRange(lower_str, tpos) ==
    IF tpos = 0
    THEN [match |-> FALSE, ok |-> FALSE,
          start_time |-> [hh |-> 0, mi |-> 0], end_time |-> [hh |-> 0, mi |-> 0]]
    ELSE [match |-> TRUE,
          ok |-> /\ ValidClock(TimeTok[lower_str[tpos]])
                 /\ ValidClock(TimeTok[lower_str[tpos + 2]]),
          start_time |-> Clock(TimeTok[lower_str[tpos]]),
          end_time |-> Clock(TimeTok[lower_str[tpos + 2]])]

StampStartOnly(tr, d) ==
    IF tr.ok THEN Ret(DateTime(d, tr.start_time), d)
    ELSE Ret(d, None)

\* The pair returned for the day d: datetimes when a valid time range was
\* read, else (d, None).
Stamp(tr, d) ==
    IF tr.ok THEN Ret(DateTime(d, tr.start_time), DateTime(d, tr.end_time))
    ELSE Ret(d, None)

\* The single-date branch: the four strptime formats in the code's order.
SingleDate(clean_date) ==
    FirstOk(<<StrpDMY(clean_date, MonthFull), StrpDMY(clean_date, MonthAbbr),
              StrpDM(clean_date, MonthFull), StrpDM(clean_date, MonthAbbr)>>)

\* The branches after the time range was read (and, in scrapers/amazon.py,
\* removed from the text): today, tomorrow, weekday, range, single date.
ParseClean(tr, clean_str, wd, single, td) ==
    IF Contains(clean_str, "today") THEN Stamp(tr, td)
    ELSE IF Contains(clean_str, "tomorrow") THEN Stamp(tr, NextDay(td))
    ELSE IF Contains(clean_str, "arriving") /\ wd # 0
    THEN Stamp(tr, AddDays(td, DaysAhead(wd, td)))
    ELSE IF HasHyphen(clean_str) /\ ~tr.match THEN ParseRange(clean_str, td)
    ELSE IF single.ok
    THEN Stamp(tr, Date(IF single.y = 1900 THEN td.y ELSE single.y, single.m, single.d))
    ELSE NoMatch

\* ... on the lower-cased text, with the "now expected by" result and the
\* position of the time range.
ParseLower(copy, lower_str, nowexp, tpos, td) ==
    IF nowexp.ok THEN Ret(Date(td.y, nowexp.m, nowexp.d), None)
    ELSE ParseClean(TimeRange(lower_str, tpos),
                    IF copy = "scrapers_amazon" /\ tpos # 0
                    THEN RemoveTimes(lower_str, DashClass(copy)) ELSE lower_str,
                    FirstWeekday(IF copy = "scrapers_amazon" /\ tpos # 0
                                 THEN RemoveTimes(lower_str, DashClass(copy)) ELSE lower_str),
                    SingleDate(RemoveWord(RemoveWord(
                        IF copy = "scrapers_amazon" /\ tpos # 0
                        THEN RemoveTimes(lower_str, DashClass(copy)) ELSE lower_str,
                        "delivered"), "arriving")),
                    td)

\* parse_delivery_date(delivery_date_str) of the given copy, with
\* datetime.now().date() = td.
ParseDeliveryDate(copy, text, td) ==
    ParseLower(copy, LowerText(text),
               IF copy = "scrapers_amazon" THEN NowExpected(LowerText(text)) ELSE StrpFail,
               TimeMatchPos(LowerText(text), DashClass(copy)), td)

----------------------------------------------------------------------------
(* parse_bookswagon_date, in parsers.py and in scrapers/bookswagon.py.     *)

BookswagonCopies == {"parsers_bookswagon", "scrapers_bookswagon"}

\* Names the module imports from datetime.  scrapers/bookswagon.py imports
\* datetime and date only, and still calls timedelta.
DatetimeImports(copy) ==
    IF copy = "scrapers_bookswagon" THEN {"datetime", "date"}
    ELSE {"datetime", "date", "timedelta"}

\* Tokens that are not made of word characters only (\w+ does not match them).
IsWordTok(tok) ==
    /\ tok \notin {Hyphen, EnDash, "delivery:", "delivered.", "15,"}
    /\ tok \notin DOMAIN HyphenTok
    /\ tok \notin DOMAIN NumDateTok
    /\ ~(IsTime(tok) /\ TimeTok[tok].mi # NoTime)

\* Day ranges written <d1>-<d2>, as group(1) and group(2) of range_pattern.
DayRangeTok == "15-20" :> <<15, 20>> @@ "30-31" :> <<30, 31>> @@ "28-29" :> <<28, 29>>

\* re.search(range_pattern, text): leftmost <d1>-<d2> <word> <4 digits>.
RangeMatchPos(text) ==
    LET hits == {i \in 1..(Len(text) - 2) :
                    /\ text[i] \in DOMAIN DayRangeTok
                    /\ IsWordTok(text[i + 1])
                    /\ IsNum(text[i + 2]) /\ NumDigits(text[i + 2]) = 4}
    IN  IF hits = {} THEN 0 ELSE CHOOSE i \in hits : \A k \in hits : i <= k

\* strptime(text, '%d-%m-%Y') with sep = "-", '%d/%m/%Y' with sep = "/".
StrpNumeric(text, sep) ==
    IF /\ Len(text) = 1
       /\ text[1] \in DOMAIN NumDateTok
       /\ NumDateTok[text[1]].sep = sep
       /\ NumDateTok[text[1]].yd = 4
       /\ ValidDate(NumDateTok[text[1]].y, NumDateTok[text[1]].m, NumDateTok[text[1]].d)
    THEN StrpOk(NumDateTok[text[1]].y, NumDateTok[text[1]].m, NumDateTok[text[1]].d)
    ELSE StrpFail

\* One try-block of the range branch: both days parsed with the same month
\* table, then end_date + timedelta(days=1).
BookswagonRange(copy, days, month, yr, months) ==
    IF /\ month \in DOMAIN months
       /\ ValidDate(yr, months[month], days[1])
       /\ ValidDate(yr, months[month], days[2])
    THEN IF "timedelta" \notin DatetimeImports(copy) THEN Raise("NameError")
         ELSE IF Overflows(NextDay(Date(yr, months[month], days[2])))
         THEN Raise("OverflowError")
         ELSE Ret(Date(yr, months[month], days[1]),
                  NextDay(Date(yr, months[month], days[2])))
    ELSE NoMatch

\* parse_bookswagon_date(date_str) of the given copy.
ParseBookswagonDate(copy, text, td) ==
    LET lowered == LowerText(text)
        clean_str == IF \E i \in 1..(Len(lowered) - 1) :
                            lowered[i] = "expected"
                            /\ lowered[i + 1] \in {"delivery", "delivery:"}
                     THEN RemovePhrase(lowered, <<"expected", "delivery:">>)
                     ELSE lowered
        rpos == RangeMatchPos(clean_str)
        days == DayRangeTok[clean_str[rpos]]
        month == clean_str[rpos + 1]
        yr == NumTok[clean_str[rpos + 2]]
        full == BookswagonRange(copy, days, month, yr, MonthFull)
        abbr == BookswagonRange(copy, days, month, yr, MonthAbbr)
        single == FirstOk(<<StrpDMY(clean_str, MonthFull), StrpDMY(clean_str, MonthAbbr),
                            StrpNumeric(clean_str, "-"), StrpNumeric(clean_str, "/")>>)
    IN  IF Len(text) = 0 THEN NoMatch
        ELSE IF rpos # 0 /\ full # NoMatch THEN full
        ELSE IF rpos # 0 /\ abbr # NoMatch THEN abbr
        ELSE IF single.ok THEN Ret(Date(single.y, single.m, single.d), None)
        ELSE ParseDeliveryDate("parsers", text, td)

----------------------------------------------------------------------------
(* IkeaScraper.parse_delivery_date.                                        *)

IsMonthish(tok) == tok \in (DOMAIN MonthFull) \cup (DOMAIN MonthAbbr)

\* The month (jan|feb|...) captures at the head of the token.
MonthOf(tok) == IF tok \in DOMAIN MonthFull THEN MonthFull[tok] ELSE MonthAbbr[tok]

\* Tokens whose tail (\d{1,2}) can match before white space: digit tokens
\* and day ranges <d1>-<d2>.
EndsInDigits(tok) == IsNum(tok) \/ tok \in DOMAIN DayRangeTok

\* The value (\d{1,2}) captures there: the last two digits of the token.
LastTwo(tok) == IF IsNum(tok) THEN NumTok[tok] % 100 ELSE DayRangeTok[tok][2]

\* A token (\d{4}) can match at its head.
FourDigits(tok) == IsNum(tok) /\ NumDigits(tok) = 4

\* Day tokens followed by a comma, for 'Month DD, YYYY'.
CommaDayTok == "15," :> 15

\* Leftmost position in 1..n satisfying P, 0 if none.
Leftmost(n, P(_)) ==
    LET hits == {i \in 1..n : P(i)}
    IN  IF hits = {} THEN 0 ELSE CHOOSE i \in hits : \A k \in hits : i <= k

\* strptime on the date rebuilt from the matched groups.
IkeaDate(y, m, d) == IF ValidDate(y, m, d) THEN StrpOk(y, m, d) ELSE StrpFail

\* The five date patterns, each tried on its leftmost match only.
IkeaPattern(k, t, td) ==
    LET n == Len(t)
        P1(i) == i + 2 <= n /\ EndsInDigits(t[i]) /\ IsMonthish(t[i + 1]) /\ FourDigits(t[i + 2])
        P2(i) == /\ i + 2 <= n /\ IsMonthish(t[i])
                 /\ \/ (IsNum(t[i + 1]) /\ NumDigits(t[i + 1]) <= 2)
                    \/ t[i + 1] \in DOMAIN CommaDayTok
                 /\ FourDigits(t[i + 2])
        P3(i) == t[i] \in DOMAIN NumDateTok /\ NumDateTok[t[i]].yd = 4
        P4(i) == t[i] \in DOMAIN NumDateTok
        \* [a-z]* may give letters back, so the look-ahead (?!\s+\d{4}) only
        \* rejects a three-letter month directly followed by a year.
        P5(i) == /\ i + 1 <= n /\ EndsInDigits(t[i]) /\ IsMonthish(t[i + 1])
                 /\ ~(/\ t[i + 1] \in DOMAIN MonthAbbr
                      /\ i + 2 <= n /\ FourDigits(t[i + 2]))
        i1 == Leftmost(n, P1)
        i2 == Leftmost(n, P2)
        i3 == Leftmost(n, P3)
        i4 == Leftmost(n, P4)
        i5 == Leftmost(n, P5)
        two(tok) == LET yy == IF NumDateTok[tok].yd = 4 THEN NumDateTok[tok].y \div 100
                              ELSE NumDateTok[tok].y
                    IN  IF yy < 50 THEN yy + 2000 ELSE yy + 1900
    IN  CASE k = 1 -> IF i1 = 0 THEN StrpFail
                      ELSE IkeaDate(NumTok[t[i1 + 2]], MonthOf(t[i1 + 1]), LastTwo(t[i1]))
          [] k = 2 -> IF i2 = 0 THEN StrpFail
                      ELSE IkeaDate(NumTok[t[i2 + 2]], MonthOf(t[i2]),
                                    IF IsNum(t[i2 + 1]) THEN NumTok[t[i2 + 1]]
                                    ELSE CommaDayTok[t[i2 + 1]])
          [] k = 3 -> IF i3 = 0 THEN StrpFail
                      ELSE IkeaDate(NumDateTok[t[i3]].y, NumDateTok[t[i3]].m, NumDateTok[t[i3]].d)
          [] k = 4 -> IF i4 = 0 THEN StrpFail
                      ELSE IkeaDate(two(t[i4]), NumDateTok[t[i4]].m, NumDateTok[t[i4]].d)
          [] OTHER -> IF i5 = 0 THEN StrpFail
                      ELSE IkeaDate(td.y, MonthOf(t[i5 + 1]), LastTwo(t[i5]))

\* Tokens the relative-days pattern reads: (?:in|within) is not anchored, so
\* any token ending in "in" does; days? matches any token starting with "day".
EndsWithIn(tok) == tok \in {"in", "within"}

StartsWithDay(tok) == tok \in {"day", "days"}

\* The 'delivered' guard: startswith('delivered'), or ' delivered ' inside
\* the text unless it also says 'will be delivered'.
IkeaDelivered(t) ==
    \/ (Len(t) > 0 /\ t[1] \in {"delivered", "delivered."})
    \/ /\ \E i \in 2..(Len(t) - 1) : t[i] = "delivered"
       /\ ~(\E i \in 1..(Len(t) - 2) :
               t[i] = "will" /\ t[i + 1] = "be" /\ t[i + 2] \in {"delivered", "delivered."})

\* IkeaScraper.parse_delivery_date(date_text): a date or None.
ParseIkea(text, td) ==
    LET t == LowerText(text)
        dpos == Leftmost(Len(t), LAMBDA i : /\ i + 2 <= Len(t) /\ EndsWithIn(t[i])
                                            /\ IsNum(t[i + 1]) /\ StartsWithDay(t[i + 2]))
        wd == FirstWeekday(t)
        dates == FirstOk([k \in 1..5 |-> IkeaPattern(k, t, td)])
    IN  IF Len(text) = 0 THEN NoMatch
        ELSE IF IkeaDelivered(t) THEN NoMatch
        ELSE IF Contains(t, "today") THEN Ret(td, None)
        ELSE IF Contains(t, "tomorrow") THEN Ret(NextDay(td), None)
        ELSE IF dpos # 0
        THEN (IF Overflows(AddDays(td, NumTok[t[dpos + 1]])) THEN Raise("OverflowError")
              ELSE Ret(AddDays(td, NumTok[t[dpos + 1]]), None))
        ELSE IF wd # 0 THEN Ret(AddDays(td, DaysAhead(wd, td)), None)
        ELSE IF dates.ok THEN Ret(Date(dates.y, dates.m, dates.d), None)
        ELSE NoMatch

\* Every parser of the repository, by name.
Parsers == ParserCopies \cup BookswagonCopies \cup {"ikea"}

Parse(fn, text, td) ==
    IF fn \in ParserCopies THEN ParseDeliveryDate(fn, text, td)
    ELSE IF fn \in BookswagonCopies THEN ParseBookswagonDate(fn, text, td)
    ELSE ParseIkea(text, td)

----------------------------------------------------------------------------
(* The parse_delivery_date methods of the Scraper subclasses, with the     *)
(* Python type of what they return.                                        *)

PyStr(chars) == [type |-> "str", text |-> chars, date |-> None]

PyDate(dt) == [type |-> "date", text |-> <<>>, date |-> dt]

PyNone == [type |-> "NoneType", text |-> <<>>, date |-> None]

Digit(n) == <<"0", "1", "2", "3", "4", "5", "6", "7", "8", "9">>[n + 1]

\* dt.strftime('%Y-%m-%d'), as its ten characters (years of four digits).
Strftime(dt) ==
    <<Digit(dt.y \div 1000), Digit((dt.y \div 100) % 10), Digit((dt.y \div 10) % 10),
      Digit(dt.y % 10), "-", Digit(dt.m \div 10), Digit(dt.m % 10), "-",
      Digit(dt.d \div 10), Digit(dt.d % 10)>>

AmazonMethod == "AmazonScraper.parse_delivery_date"
IkeaMethod == "IkeaScraper.parse_delivery_date"

Methods == {AmazonMethod, IkeaMethod}

\* AmazonScraper.parse_delivery_date formats the start the module-level
\* parse_delivery_date gives; IkeaScraper.parse_delivery_date returns the
\* date it computed, or None.
ParseMethod(m, text, td) ==
    LET r == IF m = AmazonMethod THEN ParseDeliveryDate("scrapers_amazon", text, td)
             ELSE ParseIkea(text, td)
    IN  [exc |-> r.exc,
         value |-> IF r.exc # "" \/ IsNone(r.s) THEN PyNone
                   ELSE IF m = AmazonMethod THEN PyStr(Strftime(r.s))
                   ELSE PyDate(r.s)]

----------------------------------------------------------------------------
(* Inputs: the status texts and the reference dates the model draws from.  *)

Texts == {
    <<>>,
    <<"Arriving", "today">>,
    <<"ARRIVING", "TODAY">>,
    <<"Arriving", "today", "10am", "-", "2pm">>,
    <<"Arriving", "today", "10:30am", "-", "2:15pm">>,
    <<"Arriving", "TODAY", "10AM", "-", "2PM">>,
    <<"Arriving", "today", "2pm", "ndash", "6pm">>,
    <<"Arriving", "today", "25am", "-", "30pm">>,
    <<"Arriving", "today", "10am", "-", "2:75pm">>,
    <<"Arriving", "tomorrow">>,
    <<"Arriving", "tomorrow", "10am", "-", "2pm">>,
    <<"Arriving", "tomorrow", "10pm", "-", "2am">>,
    <<"Arriving", "Sunday">>,
    <<"Arriving", "Monday", "9am", "-", "1pm">>,
    <<"Arriving", "Friday", "25am", "-", "30pm">>,
    <<"16", "July", "-", "19", "July">>,
    <<"Arriving", "16", "Jul", "-", "19", "Jul">>,
    <<"16", "July", "25am", "-", "30pm">>,
    <<"30", "Dec", "-", "2", "Jan">>,
    <<"30", "Dec", "-", "2", "Jan", "2026">>,
    <<"30", "Dec", "-", "31", "Dec", "9999">>,
    <<"16", "July", "ndash", "19", "July">>,
    <<"Delivered", "9", "July">>,
    <<"DELIVERED">>,
    <<"Package", "delivered", "yesterday">>,
    <<"Will", "be", "delivered", "today">>,
    <<"25", "March">>,
    <<"25", "March", "2026">>,
    <<"Arriving", "25", "Mar">>,
    <<"25", "March", "8am", "-", "12pm">>,
    <<"29", "February", "2023">>,
    <<"now", "expected", "by", "19", "july">>,
    <<"Now", "Expected", "By", "25", "Dec">>,
    <<"Delivery", "in", "3", "days">>,
    <<"within", "1", "day">>,
    <<"in", "0", "days">>,
    <<"Not", "yet", "dispatched">>,
    <<"Arriving", "soon">>,
    <<"15-20", "July", "2024">>,
    <<"Expected", "delivery:", "15-20", "Jul", "2024">>,
    <<"30-31", "June", "2024">>,
    <<"15", "July", "2024">>,
    <<"15-12-2024">>,
    <<"15/12/2024">>,
    <<"Delivery", "15/12/24">>,
    <<"Delivery", "31/02/2025">>,
    <<"December", "15,", "2024">>,
    <<"Arriving", "Monday">>,
    <<"Arriving", "Tuesday">>,
    <<"Arriving", "Wednesday">>,
    <<"Arriving", "Thursday">>,
    <<"Arriving", "Friday">>,
    <<"Arriving", "Saturday">>,
    <<"Arriving", "tomorrow", "2pm", "-", "6pm">>,
    <<"Arriving", "tomorrow", "2pm", "ndash", "6pm">>,
    <<"16", "July", "-", "19", "July", "25am", "-", "30pm">>,
    <<"28", "Feb", "-", "29", "Feb">>,
    <<"Arriving", "25", "Mar", "2026", "8am", "-", "12pm">>,
    <<"29/02/2023">>
}

\* Reference dates: a Monday, a Sunday, the last day of a year, a leap day.
Todays == {Date(2025, 7, 14), Date(2025, 7, 13), Date(2025, 12, 31), Date(2024, 2, 29)}

----------------------------------------------------------------------------
(* SpecParse: one call of one parser.                                      *)

ParseIdle ==
    /\ p_fn = "" /\ p_text = <<>> /\ p_result = NoMatch /\ p_value = PyNone
    /\ p_pc = "idle"

ScrapeIdle ==
    /\ s_loop = "" /\ s_pc = "idle" /\ s_seen = <<>> /\ s_orders = <<>>
    /\ s_atFault = <<>> /\ s_page = 0 /\ s_clicks = 0

ProcIdle ==
    /\ prog = "" /\ env = {} /\ site = <<>> /\ main_pc = "idle" /\ rc_pc = "idle"
    /\ rc_i = 0 /\ rc_exc = "" /\ runs = 0
    /\ all_orders = <<>> /\ scraper = "" /\ driver = "" /\ files = <<>>
    /\ wr = <<>> /\ prevDoc = <<>> /\ calls = {}

SerIdle == g_fn = "" /\ g_orders = <<>> /\ g_stamp = 0 /\ g_docs = <<>>

InitParse == today \in Todays /\ ParseIdle /\ ScrapeIdle /\ ProcIdle /\ SerIdle

\* result = fn(text): the call returns, or the exception leaves it.
ParseCall ==
    /\ p_pc = "idle"
    /\ \E fn \in Parsers, text \in Texts :
          /\ p_fn' = fn
          /\ p_text' = text
          /\ p_result' = Parse(fn, text, today)
          /\ p_pc' = IF Parse(fn, text, today).exc = "" THEN "returned" ELSE "raised"
    /\ UNCHANGED <<p_value, scrapeVars, procVars, serVars, today>>

\* value = scraper.parse_delivery_date(text), the method of a Scraper
\* subclass: it returns, or the exception of the parser leaves it.
MethodCall ==
    /\ p_pc = "idle"
    /\ \E m \in Methods, text \in Texts :
          /\ p_fn' = m
          /\ p_text' = text
          /\ p_value' = ParseMethod(m, text, today).value
          /\ p_pc' = IF ParseMethod(m, text, today).exc = "" THEN "returned" ELSE "raised"
    /\ UNCHANGED <<p_result, scrapeVars, procVars, serVars, today>>

NextParse == ParseCall \/ MethodCall

SpecParse == InitParse /\ [][NextParse]_vars

----------------------------------------------------------------------------
(* The scraper loops: AmazonScraper.scrape_orders, IkeaScraper.scrape_orders *)
(* and amazon_orders.scrape_amazon.  An item is what the loop reads off one  *)
(* order card / order element of the page:                                  *)
(*   el        a status (delivery info) was found in it;                    *)
(*   status    that text;                                                   *)
(*   link      an order-details link with an href was found;                *)
(*   products  the texts of the product elements, in page order;            *)
(*   oid       the order id extracted from the text ("" for none);          *)
(*   long      the element's text has at least 20 characters.               *)

AmazonLoop == "AmazonScraper.scrape_orders"
IkeaLoop == "IkeaScraper.scrape_orders"
FuncLoop == "scrape_amazon"

Loops == {AmazonLoop, IkeaLoop, FuncLoop}

\* max_pages, the default of AmazonScraper.__init__.
max_pages == 3

AmazonKeys == {"title", "start_date", "end_date", "order_link", "status"}

IkeaKeys == {"order_id", "title", "start_date", "status"}

\* A name that may carry a number: 'Order 2', 'ikea-2'.
Name(t, n) == [t |-> t, n |-> n]

\* One order dict (one Event of scrape_amazon); keys tells which keys exist.
Order(keys, title, r, link, status, order_id) ==
    [keys |-> keys, title |-> title, start_date |-> r.s, end_date |-> r.e,
     order_link |-> link, status |-> status, order_id |-> order_id]

\* What one item does to the loop: the orders appended, whether the parser
\* was called, and the exception that left the item's processing, if any.
Step(orders, parsed, exc) == [orders |-> orders, parsed |-> parsed, exc |-> exc]

\* The orders of one card: one per product with a non-empty name, or the
\* 'Unknown Product' fallback when the card has no product element.
CardOrders(card, r) ==
    LET names == SelectSeq(card.products, LAMBDA p : p # "")
        mk(name) == Order(AmazonKeys, Name(name, 0), r, card.link, card.status, Name("", 0))
    IN  IF card.products = <<>> THEN <<mk("Unknown Product")>>
        ELSE [k \in 1..Len(names) |-> mk(names[k])]

CardStepNoFilter(card, r) ==
    IF ~card.el THEN Step(<<>>, FALSE, "")
    ELSE IF r.exc # "" THEN Step(<<>>, TRUE, r.exc)
    ELSE IF ~IsNone(r.s) THEN Step(CardOrders(card, r), TRUE, "")
    ELSE Step(<<>>, TRUE, "")

\* The body of `for card in order_cards`; r is what parse_delivery_date
\* gives for the card's status, read only where the code calls it.
CardStep(card, r) ==
    IF ~card.el THEN Step(<<>>, FALSE, "")
    ELSE IF Contains(LowerText(card.status), "delivered") THEN Step(<<>>, FALSE, "")
    ELSE IF r.exc # "" THEN Step(<<>>, TRUE, r.exc)
    ELSE IF ~IsNone(r.s) THEN Step(CardOrders(card, r), TRUE, "")
    ELSE Step(<<>>, TRUE, "")

\* The loop body is the same in AmazonScraper.scrape_orders (parser copy
\* scrapers_amazon) and in scrape_amazon (copy amazon_orders).
ScrapeCard(copy, card, td) == CardStep(card, ParseDeliveryDate(copy, card.status, td))

\* The body of `for i, order_element in enumerate(order_elements)`; i counts
\* from 0, r is what self.parse_delivery_date gives for the delivery info.
ElementStep(el, i, r) ==
    IF ~el.long THEN Step(<<>>, FALSE, "")
    ELSE IF el.el /\ Contains(LowerText(el.status), "delivered") THEN Step(<<>>, FALSE, "")
    ELSE IF ~el.el THEN Step(<<>>, FALSE, "")
    ELSE IF r.exc # "" THEN Step(<<>>, TRUE, r.exc)
    ELSE Step(<<Order(IkeaKeys,
                      IF el.products # <<>> THEN Name(el.products[1], 0)
                      ELSE IF el.oid # "" THEN Name("Order " \o el.oid, 0)
                      ELSE Name("Order", i + 1),
                      Ret(r.s, None), FALSE, el.status,
                      IF el.oid # "" THEN Name(el.oid, 0) ELSE Name("ikea-", i + 1))>>,
              TRUE, "")

ScrapeElement(el, i, td) == ElementStep(el, i, ParseIkea(el.status, td))

\* The parser a loop calls.
LoopParser(loop) ==
    IF loop = AmazonLoop THEN "scrapers_amazon"
    ELSE IF loop = FuncLoop THEN "amazon_orders" ELSE "ikea"

\* One item of the given loop, at 0-based position i.
ScrapeStep(loop, item, i, td) ==
    IF loop = IkeaLoop THEN ScrapeElement(item, i, td)
    ELSE ScrapeCard(LoopParser(loop), item, td)

\* Status texts of the items: a date, a date range, two delivered ones, one
\* that reads as no date, and one that announces a delivery.
LoopTexts == {<<"Arriving", "tomorrow">>, <<"16", "July", "-", "19", "July">>,
              <<"Delivered", "9", "July">>, <<"DELIVERED">>, <<"Arriving", "soon">>,
              <<"Will", "be", "delivered", "today">>}

Item(el, status, link, products, oid, long) ==
    [el |-> el, status |-> status, link |-> link, products |-> products,
     oid |-> oid, long |-> long]

Cards ==
    {Item(TRUE, t, TRUE, p, "", TRUE) :
        t \in LoopTexts, p \in {<<>>, <<"Book", "Lamp">>, <<"", "Book">>, <<"">>}}
    \cup {Item(TRUE, <<"Arriving", "tomorrow">>, FALSE, <<"Book", "Lamp">>, "", TRUE),
          Item(FALSE, <<>>, FALSE, <<>>, "", TRUE)}

Elements ==
    {Item(TRUE, t, FALSE, p, o, TRUE) :
        t \in LoopTexts, p \in {<<>>, <<"Lamp">>}, o \in {"", "A1"}}
    \cup {Item(FALSE, <<>>, FALSE, <<>>, "", TRUE), Item(FALSE, <<>>, FALSE, <<>>, "", FALSE)}

ItemsOf(loop) == IF loop = IkeaLoop THEN Elements ELSE Cards

\* An item whose reading raised: nothing of it is known.
Unread == Item(FALSE, <<>>, FALSE, <<>>, "", FALSE)

\* The reference date of the loop and process specifications (a Monday).
RunToday == Date(2025, 7, 14)

Seen(item, step, raised) ==
    [item |-> item, parsed |-> step.parsed, raised |-> raised, orders |-> step.orders]

InitScrape ==
    /\ today = RunToday /\ ParseIdle /\ ProcIdle /\ SerIdle
    /\ s_loop \in Loops /\ s_pc = "loop" /\ s_seen = <<>> /\ s_orders = <<>>
    /\ s_atFault = <<>> /\ s_page = 1 /\ s_clicks = 0

\* The loop body runs on the next item of the page.  An exception of the
\* parser leaves the body: the Amazon loops have no handler inside the loop,
\* so the outer `except` ends the scrape; IKEA's per-element `except` goes on.
ScrapeItem ==
    /\ s_pc = "loop" /\ Len(s_seen) < MaxItems
    /\ \E item \in ItemsOf(s_loop) :
          LET st == ScrapeStep(s_loop, item, Len(s_seen), today)
          IN  /\ s_seen' = Append(s_seen, Seen(item, st, st.exc # ""))
              /\ s_orders' = s_orders \o st.orders
              /\ s_atFault' = IF st.exc # "" THEN Append(s_atFault, s_orders) ELSE s_atFault
              /\ s_pc' = IF st.exc # "" /\ s_loop # IkeaLoop THEN "returned" ELSE "loop"
    /\ UNCHANGED <<s_loop, s_page, s_clicks, parseVars, procVars, serVars, today>>

\* Reading the next item raises (a stale or malformed element) before it
\* contributes anything.
ItemRaises ==
    /\ s_pc = "loop" /\ Len(s_seen) < MaxItems
    /\ s_seen' = Append(s_seen, Seen(Unread, Step(<<>>, FALSE, "Exception"), TRUE))
    /\ s_atFault' = Append(s_atFault, s_orders)
    /\ s_pc' = IF s_loop # IkeaLoop THEN "returned" ELSE "loop"
    /\ UNCHANGED <<s_loop, s_orders, s_page, s_clicks, parseVars, procVars, serVars, today>>

\* An exception outside the processing of an item (driver.page_source, the
\* page load): the outer `except` logs it and the orders so far are returned.
PageRaises ==
    /\ s_pc = "loop"
    /\ s_atFault' = Append(s_atFault, s_orders)
    /\ s_pc' = "returned"
    /\ UNCHANGED <<s_loop, s_seen, s_orders, s_page, s_clicks, parseVars, procVars, serVars, today>>

NextPageOffByOne ==
    /\ s_pc = "loop" /\ s_loop = AmazonLoop /\ s_page < max_pages + 1
    /\ \E btn \in {"enabled", "disabled", "missing", "stale"} :
          /\ s_clicks' = IF btn \in {"enabled", "stale"} THEN s_clicks + 1 ELSE s_clicks
          /\ s_page' = IF btn = "enabled" THEN s_page + 1 ELSE s_page
          /\ s_pc' = IF btn = "enabled" THEN "loop" ELSE "returned"
    /\ UNCHANGED <<s_loop, s_seen, s_orders, s_atFault, parseVars, procVars, serVars, today>>

\* AmazonScraper.scrape_orders, `if page_num < self.max_pages`: the 'next'
\* control is clicked, or it is disabled or missing, or the click or the
\* wait for the next page raises; all but the first `break`.
NextPage ==
    /\ s_pc = "loop" /\ s_loop = AmazonLoop /\ s_page < max_pages
    /\ \E btn \in {"enabled", "disabled", "missing", "stale"} :
          /\ s_clicks' = IF btn \in {"enabled", "stale"} THEN s_clicks + 1 ELSE s_clicks
          /\ s_page' = IF btn = "enabled" THEN s_page + 1 ELSE s_page
          /\ s_pc' = IF btn = "enabled" THEN "loop" ELSE "returned"
    /\ UNCHANGED <<s_loop, s_seen, s_orders, s_atFault, parseVars, procVars, serVars, today>>

\* The items are exhausted (for AmazonScraper: on page max_pages): `return`.
LoopDone ==
    /\ s_pc = "loop"
    /\ s_loop = AmazonLoop => s_page = max_pages
    /\ s_pc' = "returned"
    /\ UNCHANGED <<s_loop, s_seen, s_orders, s_atFault, s_page, s_clicks,
                   parseVars, procVars, serVars, today>>

NextScrape == ScrapeItem \/ ItemRaises \/ PageRaises \/ NextPage \/ LoopDone

SpecScrape == InitScrape /\ [][NextScrape]_vars

\* The loop is sequential code: while it has not returned, its next step is
\* taken.
SpecScrapeFair == SpecScrape /\ WF_vars(NextScrape)

----------------------------------------------------------------------------
(* Properties of the parsers and of the scraper loops.                     *)

\* `"delivered" in status.lower()` for an item that has a status.
IsDelivered(item) == item.el /\ Contains(LowerText(item.status), "delivered")

\* An item that reaches the parser and for which it returns no date.
Unparseable(loop, item) ==
    /\ item.el /\ item.long /\ ~IsDelivered(item)
    /\ Parse(LoopParser(loop), item.status, today) = NoMatch

\* C1: in every scraper loop, an item whose status text contains 'delivered'
\* in any letter case is rejected before the parser is called for it, and it
\* produces no order: no order of the result carries such a status.
C1_DeliveredRejected ==
    /\ \A k \in 1..Len(s_seen) :
          IsDelivered(s_seen[k].item) =>
              ~s_seen[k].parsed /\ s_seen[k].orders = <<>>
    /\ \A j \in 1..Len(s_orders) :
          ~Contains(LowerText(s_orders[j].status), "delivered")

\* C1 witness: a loop has returned orders after it was handed a delivered
\* item (in capitals) and an item it made an order of.
C1_Witness ==
    /\ s_pc = "returned" /\ s_orders # <<>>
    /\ \E k \in 1..Len(s_seen) : s_seen[k].item.status = <<"DELIVERED">>

\* C3: in each scraper loop, an item whose status text cannot be parsed
\* contributes no order, and every other item contributes exactly the orders
\* it would contribute were the unparseable item not in the list.
C3_UnparseableIsolated ==
    \A k \in 1..Len(s_seen) :
        (~s_seen[k].raised /\ Unparseable(s_loop, s_seen[k].item)) =>
            /\ s_seen[k].orders = <<>>
            /\ \A j \in (1..Len(s_seen)) \ {k} :
                  ~s_seen[j].raised =>
                      s_seen[j].orders =
                          ScrapeStep(s_loop, s_seen[j].item,
                                     IF j > k THEN j - 2 ELSE j - 1, today).orders

\* C4: every parser returns an interval or no-match and never raises; the
\* empty string gives no-match.
C4_ParsersNeverRaise ==
    /\ p_pc \in {"idle", "returned"}
    /\ p_result.exc = ""
    /\ (p_pc = "returned" /\ p_text = <<>>) => p_result = NoMatch

\* C8: when an exception was raised while scraping, after n orders had been
\* collected, the loop returns (it does not raise) exactly those n orders in
\* their order.
C8_FaultKeepsOrders ==
    /\ s_pc # "raised"
    /\ (s_pc = "returned" /\ s_atFault # <<>>) => s_orders = s_atFault[1]

----------------------------------------------------------------------------
(* The process: main(), run_check() of the three scripts, Scraper.run, the  *)
(* function-style scrapers and the writes of the calendar files.            *)

Progs == {"delivery_calendar", "delivery_tracker", "amazon_orders"}

\* The sections of run_check, in the order of the code.
Sections(p) ==
    IF p = "delivery_calendar" THEN <<"amazon", "ikea">>
    ELSE IF p = "delivery_tracker" THEN <<"amazon", "bookswagon">>
    ELSE <<"amazon">>

Range(f) == {f[i] : i \in DOMAIN f}

\* What run_check runs for a source: a Scraper subclass, a function, or a
\* name the imported module does not define.
Runner(p, src) ==
    IF p = "delivery_calendar" THEN (IF src = "amazon" THEN "AmazonScraper" ELSE "IkeaScraper")
    ELSE IF p = "amazon_orders" THEN "scrape_amazon"
    ELSE IF src = "bookswagon" THEN "scrape_bookswagon"
    ELSE "scrapers.amazon.scrape_amazon"

Classes == {"AmazonScraper", "IkeaScraper"}

\* The names a module defines that run_check imports from it.
ModuleDefines(m) ==
    IF m = "scrapers.amazon" THEN {"parse_delivery_date", "AmazonScraper"}
    ELSE {"parse_bookswagon_date", "scrape_bookswagon", "extract_delivery_info_from_page"}

\* @abstractmethod of Scraper.
AbstractMethods == {"login", "scrape_orders", "parse_delivery_date", "get_output_filename"}

\* The methods a subclass defines.
Defines(cls) ==
    IF cls = "AmazonScraper"
    THEN {"__init__", "login", "scrape_orders", "parse_delivery_date",
          "get_output_filename", "generate_ics_file"}
    ELSE {"__init__", "login", "scrape_orders", "_extract_order_id",
          "_extract_product_title", "_extract_delivery_info", "parse_delivery_date"}

\* ABC: a class with an abstract method left cannot be instantiated.
Instantiable(cls) == AbstractMethods \subseteq Defines(cls)

LoopOf(runner) ==
    IF runner = "AmazonScraper" THEN AmazonLoop
    ELSE IF runner = "IkeaScraper" THEN IkeaLoop ELSE FuncLoop

\* One order of scrape_bookswagon: the detail page is visited when the order
\* element has a detail link; r is what parse_bookswagon_date gives for the
\* date found on it; an exception of the parser is caught per order.
DetailStep(item, r) ==
    IF ~item.link \/ ~item.el THEN Step(<<>>, FALSE, "")
    ELSE IF r.exc # "" THEN Step(<<>>, TRUE, r.exc)
    ELSE IF ~IsNone(r.s)
         THEN Step(<<Order(AmazonKeys,
                           Name(IF item.products # <<>> THEN item.products[1]
                                ELSE "Unknown Book", 0),
                           r, TRUE, item.status, Name("", 0))>>, TRUE, "")
    ELSE Step(<<>>, TRUE, "")

ScrapeDetail(item, td) ==
    DetailStep(item, ParseBookswagonDate("scrapers_bookswagon", item.status, td))

\* One item in the loop of the given runner.
RunStep(runner, item, i, td) ==
    IF runner = "scrape_bookswagon" THEN ScrapeDetail(item, td)
    ELSE ScrapeStep(LoopOf(runner), item, i, td)

\* Whether an exception leaving the item's processing ends the loop.
EndsLoop(runner, st) == st.exc # "" /\ runner \in {"AmazonScraper", "scrape_amazon"}

RECURSIVE RunFrom(_, _, _, _)
\* The loop after the step st of item i: it ends there, or goes on.
RunRest(runner, items, i, td, st) ==
    IF EndsLoop(runner, st) THEN <<>>
    ELSE st.orders \o RunFrom(runner, items, i + 1, td)

\* The loop of the runner over items[i..], no exception from outside the
\* parser: the orders it collects.
RunFrom(runner, items, i, td) ==
    IF i > Len(items) THEN <<>>
    ELSE RunRest(runner, items, i, td, RunStep(runner, items[i], i - 1, td))

\* The same, with an exception from outside the parser after k items; the
\* outer `except` keeps what was collected.
Scrape(runner, items, k, td) == RunFrom(runner, SubSeq(items, 1, k), 1, td)

\* The pages a site may show.
PendingCard == Item(TRUE, <<"Arriving", "tomorrow">>, TRUE, <<"Book", "Lamp">>, "", TRUE)
DeliveredCard == Item(TRUE, <<"Delivered", "9", "July">>, TRUE, <<"Book", "Lamp">>, "", TRUE)
OneCard == Item(TRUE, <<"16", "July", "-", "19", "July">>, FALSE, <<>>, "", TRUE)
PendingElement == Item(TRUE, <<"Arriving", "tomorrow">>, FALSE, <<"Lamp">>, "A1", TRUE)
DeliveredElement == Item(TRUE, <<"Delivered", "9", "July">>, FALSE, <<"Lamp">>, "A1", TRUE)
DatedDetail == Item(TRUE, <<"15", "July", "2024">>, TRUE, <<"Book">>, "", TRUE)
RangeDetail == Item(TRUE, <<"15-20", "July", "2024">>, TRUE, <<"Book">>, "", TRUE)

PagesOf(src) ==
    IF src = "amazon" THEN {<<>>, <<OneCard, DeliveredCard>>, <<DeliveredCard, PendingCard>>}
    ELSE IF src = "ikea" THEN {<<>>, <<PendingElement, DeliveredElement>>}
    ELSE {<<>>, <<DatedDetail>>, <<RangeDetail>>}

AllSources == {"amazon", "ikea", "bookswagon"}

\* ---- calendar documents

Chunk(tag, order) == [tag |-> tag, order |-> order]

NoOrder == Order({}, Name("", 0), NoMatch, FALSE, <<>>, Name("", 0))

\* order.get(key): truthy.
Get(order, key) ==
    /\ key \in order.keys
    /\ CASE key = "start_date" -> ~IsNone(order.start_date)
         [] key = "end_date" -> ~IsNone(order.end_date)
         [] key = "order_link" -> order.order_link
         [] OTHER -> TRUE

\* The document of an ics Calendar holding one Event per order that has a
\* start date: generate_ics_file of delivery_calendar.py and of AmazonScraper,
\* and the calendars the function-style scrapers return.
IcsDoc(orders) ==
    LET evs == SelectSeq(orders, LAMBDA o : Get(o, "start_date"))
    IN  <<Chunk("BEGIN:VCALENDAR", NoOrder)>>
        \o [k \in 1..Len(evs) |-> Chunk("VEVENT", evs[k])]
        \o <<Chunk("END:VCALENDAR", NoOrder)>>

\* Scraper.generate_ics_file: one VEVENT per order with a 'delivery_date'.
BaseDoc(orders) ==
    LET evs == SelectSeq(orders, LAMBDA o : Get(o, "delivery_date"))
    IN  <<Chunk("BEGIN:VCALENDAR", NoOrder)>>
        \o [k \in 1..Len(evs) |-> Chunk("VEVENT", evs[k])]
        \o <<Chunk("END:VCALENDAR", NoOrder)>>

\* self.generate_ics_file(orders, ...) as the class resolves it.
GenerateIcs(cls, orders) ==
    IF "generate_ics_file" \in Defines(cls) THEN IcsDoc(orders) ELSE BaseDoc(orders)

FileNames == {"amazon_orders.ics", "calendar.ics", "deliveries.ics"}

\* The combined file run_check writes.
CombinedFile(p) == IF p = "delivery_calendar" THEN "calendar.ics" ELSE "deliveries.ics"

Absent == [exists |-> FALSE, lines |-> <<>>]

\* open(path, 'w'): the file exists and is empty.
Truncated == [exists |-> TRUE, lines |-> <<>>]

NoWrite == [file |-> "", doc |-> <<>>, by |-> ""]

NoScraper ==
    [cls |-> "", src |-> "", pc |-> "", orders |-> <<>>, ret |-> FALSE,
     driver |-> "None", wait |-> "None", setup_ok |-> FALSE, cleanups |-> 0]

NoDriver == [made |-> 0, quits |-> 0]

\* ---- the state after the interpreter has loaded the script

Init ==
    /\ today = RunToday /\ ParseIdle /\ ScrapeIdle /\ SerIdle
    /\ prog \in Progs
    /\ env \in SUBSET Range(Sections(prog))
    /\ site \in {f \in [AllSources -> UNION {PagesOf(src) : src \in AllSources}] :
                    \A src \in AllSources :
                        f[src] \in (IF src \in env THEN PagesOf(src) ELSE {<<>>})}
    /\ main_pc = "start" /\ rc_pc = "idle" /\ rc_i = 0 /\ rc_exc = "" /\ runs = 0
    /\ all_orders = <<>> /\ scraper = NoScraper /\ driver = NoDriver
    /\ files = [f \in FileNames |-> Absent] /\ wr = NoWrite
    /\ prevDoc = [f \in FileNames |-> Absent] /\ calls = {}

fixedVars == <<prog, env, site, today, parseVars, scrapeVars, serVars>>

\* run_check is entered: its locals are fresh.
EnterRunCheck ==
    /\ rc_pc' = "source" /\ rc_i' = 1 /\ rc_exc' = "" /\ runs' = runs + 1
    /\ all_orders' = <<>> /\ scraper' = NoScraper /\ driver' = NoDriver /\ calls' = {}
    /\ UNCHANGED <<files, wr, prevDoc, fixedVars>>

\* run_check is left: it returns to main (e = ""), or the exception e leaves
\* it; main has no handler and schedule.run_pending passes it on, so the
\* exception leaves main too.
RcEnds(e) ==
    /\ rc_pc' = "idle" /\ rc_exc' = e /\ rc_i' = rc_i
    /\ main_pc' = IF e = "" THEN "loop" ELSE "crashed"

\* run_check goes on after the section of a source.
Advance ==
    IF rc_i < Len(Sections(prog))
    THEN rc_pc' = "source" /\ rc_i' = rc_i + 1 /\ UNCHANGED <<main_pc, rc_exc>>
    ELSE IF prog = "amazon_orders" THEN RcEnds("")
    ELSE rc_pc' = "write" /\ UNCHANGED <<rc_i, main_pc, rc_exc>>

InRunCheck == UNCHANGED <<rc_pc, rc_i, rc_exc, main_pc>>

Fault == <<"env", "fault">>

\* open(path, 'w') succeeded: the file is truncated, the document is to be
\* written into it.
OpenFile(f, doc, by) ==
    /\ files' = [files EXCEPT ![f] = Truncated]
    /\ wr' = [file |-> f, doc |-> doc, by |-> by]

\* main(): `run_check()`, the immediate first run.
MainStart ==
    /\ main_pc = "start"
    /\ main_pc' = "first"
    /\ EnterRunCheck

\* main(): `schedule.run_pending()` finds the job due and calls run_check.
Tick ==
    /\ main_pc = "loop" /\ runs < MaxRuns
    /\ main_pc' = "job"
    /\ EnterRunCheck

\* run_check: `if email and password:` of the section it is in; the scraper
\* is constructed and started, or the section is skipped.
SectionStart ==
    /\ rc_pc = "source"
    /\ LET src == Sections(prog)[rc_i]
           runner == Runner(prog, src)
       IN  IF src \notin env
           THEN Advance /\ UNCHANGED <<scraper, driver, calls>>
           ELSE IF runner \in Classes
           THEN IF Instantiable(runner)
                THEN /\ scraper' = [NoScraper EXCEPT !.cls = runner, !.src = src, !.pc = "setup"]
                     /\ driver' = NoDriver
                     /\ rc_pc' = "running"
                     /\ calls' = calls \cup {<<src, "__init__">>, <<src, "run">>}
                     /\ UNCHANGED <<rc_i, main_pc, rc_exc>>
                ELSE /\ RcEnds("TypeError")
                     /\ calls' = calls \cup {<<src, "__init__">>}
                     /\ UNCHANGED <<scraper, driver>>
           ELSE IF runner = "scrapers.amazon.scrape_amazon"
                   /\ "scrape_amazon" \notin ModuleDefines("scrapers.amazon")
           THEN RcEnds("ImportError") /\ UNCHANGED <<scraper, driver, calls>>
           ELSE \E ok \in BOOLEAN :
                   IF ok
                   THEN /\ scraper' = [NoScraper EXCEPT !.cls = runner, !.src = src,
                                          !.pc = "try", !.driver = "ref", !.wait = "set",
                                          !.setup_ok = TRUE]
                        /\ driver' = [made |-> 1, quits |-> 0]
                        /\ rc_pc' = "running"
                        /\ calls' = calls \cup {<<src, runner>>}
                        /\ UNCHANGED <<rc_i, main_pc, rc_exc>>
                   ELSE /\ RcEnds("WebDriverException")
                        /\ calls' = calls \cup {<<src, runner>>, Fault}
                        /\ UNCHANGED <<scraper, driver>>
    /\ UNCHANGED <<runs, all_orders, files, wr, prevDoc, fixedVars>>

\* Scraper.run: self.setup_driver(); webdriver.Chrome() may raise.
SetupDriver ==
    /\ rc_pc = "running" /\ scraper.cls \in Classes /\ scraper.pc = "setup"
    /\ \E ok \in BOOLEAN :
          IF ok
          THEN /\ scraper' = [scraper EXCEPT !.driver = "ref", !.wait = "set",
                                             !.setup_ok = TRUE, !.pc = "login"]
               /\ driver' = [made |-> 1, quits |-> 0]
               /\ calls' = calls \cup {<<scraper.src, "setup_driver">>}
          ELSE /\ scraper' = [scraper EXCEPT !.pc = "finally", !.ret = FALSE]
               /\ driver' = driver
               /\ calls' = calls \cup {<<scraper.src, "setup_driver">>, Fault}
    /\ InRunCheck
    /\ UNCHANGED <<runs, all_orders, files, wr, prevDoc, fixedVars>>

\* Scraper.run: `if not self.login(): return False`; login catches its own
\* exceptions and answers False.
Login ==
    /\ rc_pc = "running" /\ scraper.cls \in Classes /\ scraper.pc = "login"
    /\ \E ok \in BOOLEAN :
          IF ok
          THEN /\ scraper' = [scraper EXCEPT !.pc = "scrape"]
               /\ calls' = calls \cup {<<scraper.src, "login">>}
          ELSE /\ scraper' = [scraper EXCEPT !.pc = "finally", !.ret = FALSE]
               /\ calls' = calls \cup {<<scraper.src, "login">>, <<scraper.src, "login=False">>,
                                       Fault}
    /\ InRunCheck
    /\ UNCHANGED <<runs, all_orders, driver, files, wr, prevDoc, fixedVars>>

scrapedAlwaysWrites(sc, got) ==
    [sc EXCEPT !.orders = got, !.pc = "generate", !.ret = FALSE]

\* Scraper.run after `orders = self.scrape_orders()`:
\* `if not orders: return True`, else on to generate_ics_file.
scraped(sc, got) ==
    [sc EXCEPT !.orders = got,
               !.pc = IF got = <<>> THEN "finally" ELSE "generate",
               !.ret = (got = <<>>)]

\* Scraper.run: orders = self.scrape_orders(); the scrape keeps what it
\* collected when an exception ends it after k items.
ScrapeOrders ==
    /\ rc_pc = "running" /\ scraper.cls \in Classes /\ scraper.pc = "scrape"
    /\ \E k \in 0..Len(site[scraper.src]) :
          /\ scraper' = scraped(scraper, Scrape(scraper.cls, site[scraper.src], k, today))
          /\ calls' = calls \cup {<<scraper.src, "scrape_orders">>}
                            \cup (IF k < Len(site[scraper.src]) THEN {Fault} ELSE {})
    /\ InRunCheck
    /\ UNCHANGED <<runs, all_orders, driver, files, wr, prevDoc, fixedVars>>

\* Scraper.run: self.generate_ics_file(orders, output_file) up to the open.
Generate ==
    /\ rc_pc = "running" /\ scraper.cls \in Classes /\ scraper.pc = "generate"
    /\ calls' = calls \cup {<<scraper.src, "generate_ics_file">>}
    /\ \E ok \in BOOLEAN :
          IF ok
          THEN /\ OpenFile("amazon_orders.ics", GenerateIcs(scraper.cls, scraper.orders),
                           "scraper")
               /\ scraper' = [scraper EXCEPT !.pc = "writing"]
          ELSE /\ scraper' = [scraper EXCEPT !.pc = "finally", !.ret = FALSE]
               /\ UNCHANGED <<files, wr>>
    /\ InRunCheck
    /\ UNCHANGED <<runs, all_orders, driver, prevDoc, fixedVars>>

\* f.writelines(cal) / f.write(...): the next part of the document reaches
\* the file.
WriteLine ==
    /\ wr.file # "" /\ Len(files[wr.file].lines) < Len(wr.doc)
    /\ files' = [files EXCEPT ![wr.file].lines =
                    Append(@, wr.doc[Len(files[wr.file].lines) + 1])]
    /\ InRunCheck
    /\ UNCHANGED <<runs, all_orders, scraper, driver, wr, prevDoc, calls, fixedVars>>

\* The `with` block ends: the file is closed and the writer goes on.
WriteClose ==
    /\ wr.file # "" /\ Len(files[wr.file].lines) = Len(wr.doc)
    /\ wr' = NoWrite
    /\ prevDoc' = [prevDoc EXCEPT ![wr.file] = files[wr.file]]
    /\ IF wr.by = "scraper"
       THEN scraper' = [scraper EXCEPT !.pc = "finally", !.ret = TRUE] /\ InRunCheck
       ELSE scraper' = scraper /\ RcEnds("")
    /\ UNCHANGED <<runs, all_orders, driver, files, calls, fixedVars>>

\* A write or the close raises OSError: Scraper.run catches it and answers
\* False; in run_check nothing catches it.
WriteFails ==
    /\ wr.file # ""
    /\ wr' = NoWrite
    /\ calls' = calls \cup {Fault}
    /\ IF wr.by = "scraper"
       THEN scraper' = [scraper EXCEPT !.pc = "finally", !.ret = FALSE] /\ InRunCheck
       ELSE scraper' = scraper /\ RcEnds("OSError")
    /\ UNCHANGED <<runs, all_orders, driver, files, prevDoc, fixedVars>>

cleanupLeak(sc, ok) == [sc EXCEPT !.cleanups = @ + 1, !.pc = "returned"]

\* Scraper.cleanup on the scraper's fields; ok: driver.quit() returns. When
\* quit raises, the two assignments after it do not run and the exception
\* leaves run.
cleanup(sc, ok) ==
    IF sc.driver # "None"
    THEN [sc EXCEPT !.cleanups = @ + 1,
                    !.driver = IF ok THEN "None" ELSE @,
                    !.wait = IF ok THEN "None" ELSE @,
                    !.pc = IF ok THEN "returned" ELSE "raised"]
    ELSE [sc EXCEPT !.cleanups = @ + 1, !.pc = "returned"]

\* driver.quit() is called.
quit(d) == [d EXCEPT !.quits = @ + 1]

\* Scraper.run: `finally: self.cleanup()`, then the pending return.
RunFinally ==
    /\ rc_pc = "running" /\ scraper.cls \in Classes /\ scraper.pc = "finally"
    /\ \E ok \in (IF scraper.driver # "None" THEN BOOLEAN ELSE {TRUE}) :
          /\ scraper' = cleanup(scraper, ok)
          /\ driver' = IF scraper.driver # "None" THEN quit(driver) ELSE driver
          /\ calls' = calls \cup {<<scraper.src, "cleanup">>}
                            \cup (IF ok THEN {} ELSE {Fault})
    /\ InRunCheck
    /\ UNCHANGED <<runs, all_orders, files, wr, prevDoc, fixedVars>>

\* scrape_amazon / scrape_bookswagon: the `try` block, the login and the
\* loop over the orders; an exception after k items goes to `except`, which
\* prints it (and tries a screenshot).
FuncTry ==
    /\ rc_pc = "running" /\ scraper.cls \notin Classes /\ scraper.pc = "try"
    /\ \E k \in 0..Len(site[scraper.src]) :
          /\ scraper' = [scraper EXCEPT !.orders = Scrape(scraper.cls, site[scraper.src], k, today),
                                        !.pc = "finally"]
          /\ calls' = calls \cup (IF k < Len(site[scraper.src]) THEN {Fault} ELSE {})
    /\ InRunCheck
    /\ UNCHANGED <<runs, all_orders, driver, files, wr, prevDoc, fixedVars>>

\* scrape_amazon / scrape_bookswagon: `finally: driver.quit(); return cal`.
FuncFinally ==
    /\ rc_pc = "running" /\ scraper.cls \notin Classes /\ scraper.pc = "finally"
    /\ driver' = quit(driver)
    /\ \E ok \in BOOLEAN :
          /\ scraper' = [scraper EXCEPT !.pc = IF ok THEN "returned" ELSE "raised"]
          /\ calls' = calls \cup (IF ok THEN {} ELSE {Fault})
    /\ InRunCheck
    /\ UNCHANGED <<runs, all_orders, files, wr, prevDoc, fixedVars>>

\* delivery_tracker.run_check line 46 reads amazon_calendar, which is bound
\* only when the Amazon section ran its scraper.
AmazonCalendarBound == <<"amazon", "returned">> \in calls

\* run_check: the scraper has returned (or raised) and the section uses
\* what it returned.
SourceReturns ==
    /\ rc_pc = "running" /\ scraper.pc \in {"returned", "raised"}
    /\ calls' = IF scraper.pc = "returned" THEN calls \cup {<<scraper.src, "returned">>}
                ELSE calls
    /\ IF scraper.pc = "raised"
       THEN RcEnds("WebDriverException") /\ UNCHANGED <<all_orders, files, wr>>
       ELSE IF scraper.cls \in Classes
       THEN \* `if orders: all_orders.extend(orders)` on the bool run returned
            /\ IF scraper.ret THEN RcEnds("TypeError") ELSE Advance
            /\ UNCHANGED <<all_orders, files, wr>>
       ELSE IF prog = "delivery_tracker"
       THEN /\ all_orders' = all_orders \o scraper.orders
            /\ IF scraper.orders # <<>> /\ ~AmazonCalendarBound
               THEN RcEnds("UnboundLocalError") ELSE Advance
            /\ UNCHANGED <<files, wr>>
       ELSE \* amazon_orders.run_check: `if amazon_calendar.events:` write
            /\ all_orders' = scraper.orders
            /\ IF scraper.orders # <<>>
               THEN \E ok \in BOOLEAN :
                       IF ok THEN /\ OpenFile("amazon_orders.ics", IcsDoc(scraper.orders),
                                              "run_check")
                                  /\ rc_pc' = "writing"
                                  /\ UNCHANGED <<rc_i, rc_exc, main_pc>>
                       ELSE RcEnds("OSError") /\ UNCHANGED <<files, wr>>
               ELSE RcEnds("") /\ UNCHANGED <<files, wr>>
    /\ UNCHANGED <<runs, scraper, driver, prevDoc, fixedVars>>

\* run_check of delivery_calendar / delivery_tracker: the combined file is
\* written when there is anything to write.
CombinedWrite ==
    /\ rc_pc = "write"
    /\ IF all_orders # <<>>
       THEN /\ OpenFile(CombinedFile(prog), IcsDoc(all_orders), "run_check")
            /\ rc_pc' = "writing"
            /\ UNCHANGED <<rc_i, rc_exc, main_pc>>
       ELSE RcEnds("") /\ UNCHANGED <<files, wr>>
    /\ UNCHANGED <<runs, all_orders, scraper, driver, prevDoc, calls, fixedVars>>

Next ==
    \/ MainStart \/ Tick \/ SectionStart \/ SourceReturns \/ CombinedWrite
    \/ SetupDriver \/ Login \/ ScrapeOrders \/ Generate \/ RunFinally
    \/ FuncTry \/ FuncFinally
    \/ WriteLine \/ WriteClose \/ WriteFails

Spec == Init /\ [][Next]_vars

----------------------------------------------------------------------------
(* Properties of the process.                                              *)

\* A run_check has ended: it returned to main or its exception left main.
RunEnded == main_pc \in {"loop", "crashed"}

\* Nothing outside the program failed in the current run_check: the browser
\* started, every login succeeded, no page, write or quit raised.
NoFault == Fault \notin calls

\* The VEVENT records of a file.
Events(file) == SelectSeq(file.lines, LAMBDA c : c.tag = "VEVENT")

\* C2: with both credential pairs configured and each source showing one
\* pending and one delivered item, delivery_calendar.run_check finishes with
\* exactly 2 orders in all_orders, Amazon's before IKEA's, and calendar.ics
\* holds exactly 2 events.
C2_EndToEnd ==
    (/\ prog = "delivery_calendar" /\ env = {"amazon", "ikea"}
     /\ site["amazon"] = <<OneCard, DeliveredCard>>
     /\ site["ikea"] = <<PendingElement, DeliveredElement>>
     /\ RunEnded /\ NoFault)
    => /\ rc_exc = ""
       /\ Len(all_orders) = 2
       /\ all_orders[1].keys = AmazonKeys /\ all_orders[2].keys = IkeaKeys
       /\ files["calendar.ics"].exists
       /\ Len(Events(files["calendar.ics"])) = 2

\* C5: when login() of a source returned False, Scraper.run called neither
\* scrape_orders nor generate_ics_file for it, no order of the source is in
\* all_orders, and, unless quitting the browser raised, run_check has run the
\* scraper of every configured source that follows it by the time it ends.
C5_LoginFailureSkipsSource ==
    \A i \in 1..Len(Sections(prog)) :
        <<Sections(prog)[i], "login=False">> \in calls =>
            /\ <<Sections(prog)[i], "scrape_orders">> \notin calls
            /\ <<Sections(prog)[i], "generate_ics_file">> \notin calls
            /\ \A k \in 1..Len(all_orders) :
                  all_orders[k].keys #
                      (IF Sections(prog)[i] = "amazon" THEN AmazonKeys ELSE IkeaKeys)
            /\ (RunEnded /\ rc_exc # "WebDriverException") =>
                  \A j \in (i + 1)..Len(Sections(prog)) :
                      Sections(prog)[j] \in env => <<Sections(prog)[j], "run">> \in calls

\* C6: for every combination of configured credential pairs, run_check of
\* delivery_tracker and of delivery_calendar makes no call for a source
\* whose pair is absent and ends without raising.
C6_AbsentSourcesSkipped ==
    (prog \in {"delivery_tracker", "delivery_calendar"} /\ NoFault) =>
        /\ \A c \in calls : c[1] \in env
        /\ RunEnded => rc_exc = ""

\* C7: once setup_driver has succeeded, Scraper.run ends with cleanup run
\* exactly once and the driver quit exactly once, and self.driver and
\* self.wait are None when it returns; scrape_amazon and scrape_bookswagon
\* end with their driver quit exactly once; no driver is ever quit twice.
C7_DriverReleasedOnce ==
    /\ driver.quits <= driver.made /\ driver.made <= 1 /\ scraper.cleanups <= 1
    /\ (scraper.pc \notin {"returned", "raised"} /\ scraper.cls # "") =>
          driver.quits = 0 /\ scraper.cleanups = 0
    /\ (scraper.cls \in Classes /\ scraper.setup_ok /\ scraper.pc \in {"returned", "raised"}) =>
          scraper.cleanups = 1 /\ driver.quits = 1
    /\ (scraper.cls \in Classes /\ scraper.setup_ok /\ scraper.pc = "returned") =>
          scraper.driver = "None" /\ scraper.wait = "None"
    /\ (scraper.cls \in {"scrape_amazon", "scrape_bookswagon"}
        /\ scraper.pc \in {"returned", "raised"}) =>
          driver.quits = 1

\* C7 witness: AmazonScraper.run has returned False after the write of its
\* file raised, with the driver quit once.
C7_Witness ==
    /\ scraper.cls = "AmazonScraper" /\ scraper.pc = "returned" /\ scraper.setup_ok
    /\ ~scraper.ret /\ <<"amazon", "generate_ics_file">> \in calls
    /\ driver.quits = 1 /\ scraper.driver = "None"

\* C9: at every point the content of every output file is the complete
\* document of the last successful write or the complete document being
\* written.
C9_FileNeverPartial ==
    \A f \in FileNames :
        \/ files[f] = prevDoc[f]
        \/ wr.file = f /\ files[f].lines = wr.doc

\* C10: an error raised inside a run_check ends only that run; main keeps
\* running.
C10_MainSurvives == main_pc # "crashed"

----------------------------------------------------------------------------
(* SpecSerialize: generate_ics_file of delivery_calendar.py and of         *)
(* AmazonScraper (both fill an ics Calendar) and of Scraper (inherited by  *)
(* IkeaScraper; it writes the lines itself), called twice on an order list. *)

MaxOrders == 2

Serializers == {"delivery_calendar.generate_ics_file", "AmazonScraper.generate_ics_file",
                "Scraper.generate_ics_file"}

\* Status texts of the orders: a date, a timed interval, a date range.
SerTexts == {<<"Arriving", "tomorrow">>, <<"Arriving", "tomorrow", "10am", "-", "2pm">>,
             <<"16", "July", "-", "19", "July">>}

\* The order AmazonScraper.scrape_orders builds for a card with that status.
AmazonOrder(text) ==
    ScrapeCard("scrapers_amazon", Item(TRUE, text, TRUE, <<"Book">>, "", TRUE), RunToday).orders[1]

\* The order IkeaScraper.scrape_orders builds for the element at position i.
IkeaOrder(text, products, oid, i) ==
    ScrapeElement(Item(TRUE, text, FALSE, products, oid, TRUE), i, RunToday).orders[1]

AmazonOrders == {AmazonOrder(t) : t \in SerTexts}

\* Two elements with the same extracted order number, one without a number,
\* one whose text has no date.
IkeaOrders ==
    {IkeaOrder(<<"Arriving", "tomorrow">>, <<"Lamp">>, "123456", 0),
     IkeaOrder(<<"Arriving", "tomorrow">>, <<>>, "123456", 1),
     IkeaOrder(<<"Arriving", "tomorrow">>, <<>>, "", 0),
     IkeaOrder(<<"Arriving", "soon">>, <<>>, "", 1)}

\* An order dict as Scraper.generate_ics_file reads it: 'delivery_date' is
\* the 'YYYY-MM-DD' string of the day (kept in start_date here), 'order_id'
\* may be missing.
DatedOrder(keys, title, oid) ==
    Order(keys, Name(title, 0), Ret(NextDay(RunToday), None), FALSE, <<"Arriving", "tomorrow">>,
          Name(oid, 0))

\* A line break inside a scraped text.
LineBreak == "\n"

\* The last order has the status IkeaScraper._extract_delivery_info reads
\* off a text whose line goes on after the match: (arriving[^.]*) runs
\* across the line break.
DatedOrders ==
    {DatedOrder({"order_id", "title", "delivery_date", "status"}, "Book", "123456"),
     DatedOrder({"order_id", "title", "delivery_date", "status"}, "Lamp", "123456"),
     DatedOrder({"title", "delivery_date", "status"}, "Chair", ""),
     [DatedOrder({"order_id", "title", "delivery_date", "status"}, "Desk", "654321")
         EXCEPT !.status = <<"Arriving", "tomorrow", LineBreak, "Order", "total">>]}

SerOrders == AmazonOrders \cup IkeaOrders \cup DatedOrders

OrderLists == UNION {[1..n -> SerOrders] : n \in 0..MaxOrders}

Reverse(seq) == [k \in 1..Len(seq) |-> seq[Len(seq) + 1 - k]]

Doc(events, lines) == [exc |-> "", events |-> events, lines |-> lines]

\* The Event generate_ics_file fills from an order; uid is the identifier
\* Event() drew for it.
IcsEvent(order, uid) ==
    [uid |-> uid, name |-> order.title, begin |-> order.start_date,
     end |-> IF Get(order, "end_date") THEN order.end_date ELSE None,
     link |-> Get(order, "order_link"),
     all_day |-> ~HasTime(order.start_date)]

\* generate_ics_file of delivery_calendar.py and of AmazonScraper: one Event
\* per order with a start date.  Event() is given no uid, so the library
\* draws a random one (seed tells the draws of this call apart), and
\* cal.events is a set: the document lists the events in the set's order,
\* which follows the hash of the uids.
IcsSerialize(orders, seed, rev) ==
    LET evs == SelectSeq(orders, LAMBDA o : Get(o, "start_date"))
        out == [k \in 1..Len(evs) |->
                   IcsEvent(evs[k], Name("uuid4", seed * (Len(orders) + 1) + k))]
    IN  Doc(IF rev THEN Reverse(out) ELSE out, <<>>)

\* One VEVENT of Scraper.generate_ics_file: UID from order_id or 'unknown',
\* DTSTART;VALUE=DATE, SUMMARY, DTSTAMP.
BaseEvent(order, stamp) ==
    [uid |-> IF "order_id" \in order.keys THEN order.order_id ELSE Name("unknown", 0),
     name |-> order.title, begin |-> order.start_date, end |-> None,
     link |-> FALSE, all_day |-> TRUE, dtstamp |-> stamp]

\* The lines of the written file a string of ics_content becomes: the
\* strings are joined with '\n', so a line break inside a value starts a
\* new line of the file.  A line is its property name (up to the colon) and
\* its value; the lines a value's line breaks open have no name.
Line(name, value) == [name |-> name, value |-> value]

RECURSIVE SplitLines(_)
SplitLines(value) ==
    IF \A i \in 1..Len(value) : value[i] # LineBreak THEN <<value>>
    ELSE LET i == CHOOSE j \in 1..Len(value) :
                      value[j] = LineBreak /\ \A k \in 1..(j - 1) : value[k] # LineBreak
         IN  <<SubSeq(value, 1, i - 1)>> \o SplitLines(SubSeq(value, i + 1, Len(value)))

Written(name, value) ==
    [k \in 1..Len(SplitLines(value)) |->
        Line(IF k = 1 THEN name ELSE "", SplitLines(value)[k])]

\* order['delivery_date'].replace('-', '') for the 'YYYY-MM-DD' string.
CompactDate(dt) == SelectSeq(Strftime(dt), LAMBDA c : c # "-")

\* The five header lines and the footer line of ics_content.
BaseHeader ==
    <<Line("BEGIN", <<"VCALENDAR">>), Line("VERSION", <<"2.0">>),
      Line("PRODID", <<"-//Order Tracker//Order Tracker//EN">>),
      Line("CALSCALE", <<"GREGORIAN">>), Line("METHOD", <<"PUBLISH">>)>>

BaseFooter == <<Line("END", <<"VCALENDAR">>)>>

\* The seven strings ics_content.extend adds for one order, as file lines.
BaseRecord(order, stamp) ==
    Written("BEGIN", <<"VEVENT">>)
    \o Written("UID", <<(IF "order_id" \in order.keys THEN order.order_id.t ELSE "unknown"),
                        "@ordertracker.local">>)
    \o Written("DTSTART;VALUE=DATE", CompactDate(order.start_date))
    \o Written("SUMMARY", <<IF "title" \in order.keys THEN order.title.t
                            ELSE "Order Delivery">>)
    \o Written("DESCRIPTION",
               <<"Order ID:", (IF "order_id" \in order.keys THEN order.order_id.t ELSE "N/A"),
                 "\\nStatus:">>
               \o (IF "status" \in order.keys THEN order.status ELSE <<"N/A">>))
    \o Written("DTSTAMP", <<Digit(stamp)>>)
    \o Written("END", <<"VEVENT">>)

RECURSIVE BaseRecords(_, _)
BaseRecords(evs, stamp) ==
    IF evs = <<>> THEN <<>>
    ELSE BaseRecord(Head(evs), stamp) \o BaseRecords(Tail(evs), stamp)

\* Scraper.generate_ics_file: one VEVENT per order with a 'delivery_date',
\* in list order.
BaseSerialize(orders, stamp) ==
    LET evs == SelectSeq(orders, LAMBDA o : Get(o, "delivery_date"))
    IN  Doc([k \in 1..Len(evs) |-> BaseEvent(evs[k], stamp)],
            BaseHeader \o BaseRecords(evs, stamp) \o BaseFooter)

InitSerialize ==
    /\ today = RunToday /\ ParseIdle /\ ScrapeIdle /\ ProcIdle
    /\ g_fn \in Serializers /\ g_orders \in OrderLists
    /\ g_stamp \in {1, 2} /\ g_docs = <<>>

\* generate_ics_file(orders, output_file) is called.
Serialize ==
    /\ g_fn # "" /\ Len(g_docs) < 2
    /\ \E seed \in {1, 2}, rev \in BOOLEAN :
          g_docs' = Append(g_docs,
                           IF g_fn = "Scraper.generate_ics_file"
                           THEN BaseSerialize(g_orders, g_stamp)
                           ELSE IcsSerialize(g_orders, seed, rev))
    /\ UNCHANGED <<g_fn, g_orders, g_stamp, parseVars, scrapeVars, procVars, today>>

NextSerialize == Serialize

SpecSerialize == InitSerialize /\ [][NextSerialize]_vars

----------------------------------------------------------------------------
(* Properties of the serializers.                                          *)

\* The orders a serializer is handed by its caller: AmazonScraper.run hands
\* Amazon orders, IkeaScraper.run IKEA orders, run_check both.
HandedTo(fn) ==
    IF fn = "AmazonScraper.generate_ics_file" THEN AmazonOrders
    ELSE IF fn = "Scraper.generate_ics_file" THEN IkeaOrders
    ELSE AmazonOrders \cup IkeaOrders

Pairings(n) == {p \in [1..n -> 1..n] : \A i, j \in 1..n : p[i] = p[j] => i = j}

\* The event is the one of the order: whole-day for a date, timed with
\* distinct start and end for a date-time.
EventOfOrder(ev, o) ==
    /\ ev.name = o.title /\ ev.begin = o.start_date
    /\ IF HasTime(o.start_date)
       THEN ~ev.all_day /\ ~IsNone(ev.end) /\ ev.end # ev.begin
       ELSE ev.all_day

\* C11: for an order list a scraper produced, every order of which has a
\* start, each serializer writes exactly one event per order: whole-day when
\* the start is a date, timed with distinct start and end when it is a
\* date-time.
C11_OneEventPerOrder ==
    \A d \in 1..Len(g_docs) :
        (\A k \in 1..Len(g_orders) :
            g_orders[k] \in HandedTo(g_fn) /\ ~IsNone(g_orders[k].start_date))
        => /\ g_docs[d].exc = ""
           /\ Len(g_docs[d].events) = Len(g_orders)
           /\ \E p \in Pairings(Len(g_orders)) :
                 \A k \in 1..Len(g_orders) : EventOfOrder(g_docs[d].events[p[k]], g_orders[k])

\* C12: in every document Scraper.generate_ics_file writes, the UIDs of the
\* events are pairwise distinct.
C12_UidsDistinct ==
    \A d \in 1..Len(g_docs) :
        g_fn = "Scraper.generate_ics_file" =>
            \A i, j \in 1..Len(g_docs[d].events) :
                g_docs[d].events[i].uid = g_docs[d].events[j].uid => i = j

\* C13: two calls of delivery_calendar.generate_ics_file or of
\* Scraper.generate_ics_file on the same order list with the same generation
\* timestamp write the same document.
C13_SerializeIdempotent ==
    (Len(g_docs) = 2
     /\ g_fn \in {"delivery_calendar.generate_ics_file", "Scraper.generate_ics_file"})
    => g_docs[1] = g_docs[2]

----------------------------------------------------------------------------
(* Properties of parse_delivery_date, case by case.                        *)

\* The clock range of a text as the specification reads it: two clocks
\* separated by a hyphen or an en dash.
ClockRange(text) ==
    TimeRange(LowerText(text), TimeMatchPos(LowerText(text), {Hyphen, EnDash}))

\* The text without its clock ranges.
WithoutClocks(text) == RemoveTimes(LowerText(text), {Hyphen, EnDash})

\* The month a full or abbreviated month name stands for, 0 for other words.
MonthNumber(tok) ==
    IF Lower(tok) \in DOMAIN MonthFull THEN MonthFull[Lower(tok)]
    ELSE IF Lower(tok) \in DOMAIN MonthAbbr THEN MonthAbbr[Lower(tok)] ELSE 0

\* The token names a day of that month in the reference year.
DayOfMonth(dtok, mtok, td) ==
    /\ IsNum(dtok) /\ MonthNumber(mtok) # 0
    /\ ValidDate(td.y, MonthNumber(mtok), NumTok[dtok])

\* C14: parse_delivery_date maps a text containing 'today' (resp.
\* 'tomorrow'), in any letter case, to (day, None) when it has no clock
\* range and to (day at start time, day at end time) when it has a valid
\* one, day being the reference date (resp. the day after).
C14_TodayTomorrow ==
    (/\ p_pc # "idle" /\ p_fn \in ParserCopies
     /\ \/ Contains(LowerText(p_text), "today")
        \/ Contains(LowerText(p_text), "tomorrow"))
    => /\ ~ClockRange(p_text).match =>
             p_result = Ret(IF Contains(LowerText(p_text), "today")
                            THEN today ELSE NextDay(today), None)
       /\ ClockRange(p_text).ok =>
             p_result = Stamp(ClockRange(p_text),
                              IF Contains(LowerText(p_text), "today")
                              THEN today ELSE NextDay(today))

\* C15: 'Arriving <weekday>' resolves, in the three copies of
\* parse_delivery_date and in IkeaScraper.parse_delivery_date, to the one
\* date d with today < d <= today + 7 that falls on that weekday (today + 7
\* when it is today's weekday).
C15_WeekdayAhead ==
    (/\ p_pc # "idle" /\ p_fn \in ParserCopies \cup {"ikea"}
     /\ Len(p_text) = 2 /\ Lower(p_text[1]) = "arriving"
     /\ \E w \in 1..7 : Weekdays[w] = Lower(p_text[2]))
    => \E k \in 1..7 :
          /\ p_result = Ret(AddDays(today, k), None)
          /\ \A j \in 1..7 :
                Weekdays[Weekday(AddDays(today, j)) + 1] = Lower(p_text[2]) <=> j = k

\* C15 witness: 'Arriving Monday' read on a Monday gave the Monday a week
\* later.
C15_Witness ==
    /\ p_pc = "returned" /\ p_fn = "amazon_orders" /\ p_text = <<"Arriving", "Monday">>
    /\ today = Date(2025, 7, 14) /\ p_result = Ret(Date(2025, 7, 21), None)

\* C16: for '<d1> <month1> - <d2> <month2>' without a year, both days
\* existing in the reference year Y, parse_delivery_date returns
\* (date(Y, month1, d1), date(Y, month2, d2) + 1 day).
C16_DateRange ==
    (/\ p_pc # "idle" /\ p_fn \in ParserCopies
     /\ Len(p_text) = 5 /\ p_text[3] = Hyphen
     /\ DayOfMonth(p_text[1], p_text[2], today) /\ DayOfMonth(p_text[4], p_text[5], today))
    => p_result = Ret(Date(today.y, MonthNumber(p_text[2]), NumTok[p_text[1]]),
                      NextDay(Date(today.y, MonthNumber(p_text[5]), NumTok[p_text[4]])))

\* C17: for a text whose clock range matches the pattern but is no valid
\* 12-hour time, parse_delivery_date returns what it returns for the text
\* without the clock range, and never a timed result.
C17_InvalidClockIgnored ==
    (/\ p_pc # "idle" /\ p_fn \in ParserCopies
     /\ ClockRange(p_text).match /\ ~ClockRange(p_text).ok)
    => /\ p_result = ParseDeliveryDate(p_fn, WithoutClocks(p_text), today)
       /\ ~HasTime(p_result.s)

\* C18: 'now expected by <day> <month>', in any letter case, gives
\* (date(reference year, month, day), None) in every copy of
\* parse_delivery_date.
C18_NowExpectedBy ==
    (/\ p_pc # "idle" /\ p_fn \in ParserCopies
     /\ Len(p_text) = 5
     /\ LowerText(Slice(p_text, 1, 3)) = <<"now", "expected", "by">>
     /\ DayOfMonth(p_text[4], p_text[5], today))
    => p_result = Ret(Date(today.y, MonthNumber(p_text[5]), NumTok[p_text[4]]), None)

\* C19: for an explicit single date (with or without year, with or without
\* 'arriving') followed by a valid clock range, parse_delivery_date returns
\* (that date at the start time, that date at the end time).
C19_DateWithClock ==
    (/\ p_pc # "idle" /\ p_fn \in ParserCopies
     /\ ClockRange(p_text).ok
     /\ SingleDate(RemoveWord(WithoutClocks(p_text), "arriving")).ok)
    => \E y \in {today.y, SingleDate(RemoveWord(WithoutClocks(p_text), "arriving")).y} :
          /\ y # 1900
          /\ p_result = Stamp(ClockRange(p_text),
                              Date(y, SingleDate(RemoveWord(WithoutClocks(p_text), "arriving")).m,
                                   SingleDate(RemoveWord(WithoutClocks(p_text), "arriving")).d))

\* The text with every en dash replaced by a hyphen.
WithHyphen(text) == [i \in 1..Len(text) |-> IF text[i] = EnDash THEN Hyphen ELSE text[i]]

\* C20: in every copy of parse_delivery_date a clock range written with an
\* en dash gives the same result as the one written with a hyphen.
C20_DashIndependent ==
    (/\ p_pc # "idle" /\ p_fn \in ParserCopies
     /\ ClockRange(p_text).ok /\ \E i \in 1..Len(p_text) : p_text[i] = EnDash)
    => p_result = ParseDeliveryDate(p_fn, WithHyphen(p_text), today)

----------------------------------------------------------------------------
(* Properties of the scraper loops, item by item.                          *)

\* A seen card of an Amazon loop that was read without a fault, is not
\* delivered and whose status the loop's parser resolves to a start.
ParseableCard(k) ==
    /\ s_loop \in {AmazonLoop, FuncLoop}
    /\ ~s_seen[k].raised /\ s_seen[k].item.el /\ ~IsDelivered(s_seen[k].item)
    /\ Parse(LoopParser(s_loop), s_seen[k].item.status, today).exc = ""
    /\ ~IsNone(Parse(LoopParser(s_loop), s_seen[k].item.status, today).s)

\* The order the claim expects for a product title of a card.
ExpectedOrder(card, title, r) ==
    Order(AmazonKeys, Name(title, 0), r, card.link, card.status, Name("", 0))

\* C21: an Amazon card with a parseable, non-delivered status and k >= 1
\* product elements appends exactly one order per product element, in
\* element order, all with the same dates, link and status; a card without
\* product element appends one order titled 'Unknown Product'; so every such
\* card gives at least one order.
C21_OneOrderPerProduct ==
    \A k \in 1..Len(s_seen) :
        ParseableCard(k) =>
            LET card == s_seen[k].item
                r == Parse(LoopParser(s_loop), card.status, today)
            IN  /\ s_seen[k].orders # <<>>
                /\ card.products = <<>> =>
                      s_seen[k].orders = <<ExpectedOrder(card, "Unknown Product", r)>>
                /\ card.products # <<>> =>
                      s_seen[k].orders =
                          [j \in 1..Len(card.products) |->
                              ExpectedOrder(card, card.products[j], r)]

\* A status that announces a delivery: it contains 'will be delivered' and
\* does not start with 'delivered'.
AnnouncesDelivery(status) ==
    /\ ContainsPhrase(LowerText(status), <<"will", "be", "delivered">>)
    /\ ~HasSub(Lower(status[1]), "delivered")

\* C22: a status that contains 'will be delivered' and does not start with
\* 'delivered' is not taken for a completed delivery:
\* IkeaScraper.parse_delivery_date resolves its date ('will be delivered
\* today' gives today), and the delivered-filter of
\* IkeaScraper.scrape_orders and AmazonScraper.scrape_orders does not drop
\* the item: the loop goes on to parse its status.
C22_WillBeDeliveredKept ==
    \A k \in 1..Len(s_seen) :
        (/\ s_loop \in {IkeaLoop, AmazonLoop}
         /\ ~s_seen[k].raised /\ s_seen[k].item.el /\ s_seen[k].item.long
         /\ AnnouncesDelivery(s_seen[k].item.status))
        => /\ Contains(LowerText(s_seen[k].item.status), "today") =>
                 ParseIkea(s_seen[k].item.status, today) = Ret(today, None)
           /\ s_seen[k].parsed

----------------------------------------------------------------------------
(* Properties of the parsers: relative days, return types and shapes.      *)

\* The position of 'in N day(s)' or 'within N day(s)' in a text, 0 if none.
RelativeDaysPos(text) ==
    Leftmost(Len(text), LAMBDA i : /\ i + 2 <= Len(text)
                                   /\ Lower(text[i]) \in {"in", "within"}
                                   /\ IsNum(text[i + 1])
                                   /\ Lower(text[i + 2]) \in {"day", "days"})

\* C23: a text 'in N days' or 'within N day(s)' without 'today', 'tomorrow'
\* or a delivered marker resolves to today + N days, with no time of day, in
\* IkeaScraper.parse_delivery_date and in each copy of parse_delivery_date.
C23_RelativeDays ==
    (/\ p_pc # "idle" /\ p_fn \in ParserCopies \cup {"ikea"}
     /\ RelativeDaysPos(p_text) # 0
     /\ ~Contains(LowerText(p_text), "today")
     /\ ~Contains(LowerText(p_text), "tomorrow")
     /\ ~Contains(LowerText(p_text), "delivered"))
    => p_result = Ret(AddDays(today, NumTok[p_text[RelativeDaysPos(p_text) + 1]]), None)

\* A string of the form YYYY-MM-DD.
IsIsoDate(chars) ==
    /\ Len(chars) = 10
    /\ \A i \in 1..10 : IF i \in {5, 8} THEN chars[i] = "-"
                        ELSE \E n \in 0..9 : chars[i] = Digit(n)

\* C24: the parse_delivery_date method of AmazonScraper and of IkeaScraper
\* returns the resolved start date as a string YYYY-MM-DD, or None when the
\* text has no date; for a text containing 'today'
\* IkeaScraper.parse_delivery_date returns today formatted '%Y-%m-%d'.
C24_MethodReturnsIsoString ==
    (p_pc = "returned" /\ p_fn \in Methods)
    => /\ p_value.type \in {"str", "NoneType"}
       /\ p_value.type = "str" => IsIsoDate(p_value.text)
       /\ (/\ p_fn = IkeaMethod /\ Contains(LowerText(p_text), "today")
           /\ ~IkeaDelivered(LowerText(p_text)))
          => p_value = PyStr(Strftime(today))

\* A date or date-time as minutes on the time line (a date is its midnight).
Instant(v) == Ordinal(v) * 1440 + (IF HasTime(v) THEN v.hh * 60 + v.mi ELSE 0)

\* C25: whenever parse_delivery_date or parse_bookswagon_date returns an
\* end, it is strictly later than the returned start, for clock ranges (also
\* '10pm - 2am') and for date ranges (also across a year boundary).
C25_EndAfterStart ==
    (/\ p_pc = "returned" /\ p_fn \in ParserCopies \cup BookswagonCopies
     /\ ~IsNone(p_result.e))
    => Instant(p_result.s) < Instant(p_result.e)

\* C26: every value parse_delivery_date or parse_bookswagon_date returns is
\* (None, None), or a date with None or a date, or two date-times: a None
\* start has a None end, and a date is never paired with a date-time.
C26_ThreeShapes ==
    (p_pc = "returned" /\ p_fn \in ParserCopies \cup BookswagonCopies)
    => \/ p_result.s = None /\ p_result.e = None
       \/ /\ ~IsNone(p_result.s) /\ ~HasTime(p_result.s)
          /\ p_result.e = None \/ (~IsNone(p_result.e) /\ ~HasTime(p_result.e))
       \/ /\ ~IsNone(p_result.s) /\ HasTime(p_result.s)
          /\ ~IsNone(p_result.e) /\ HasTime(p_result.e)

\* C26 witness: parse_bookswagon_date returned two date-times for a text
\* with a clock range.
C26_Witness ==
    /\ p_pc = "returned" /\ p_fn = "scrapers_bookswagon"
    /\ p_text = <<"Arriving", "today", "10:30am", "-", "2:15pm">>
    /\ p_result = Ret(DateTime(today, [hh |-> 10, mi |-> 30]),
                      DateTime(today, [hh |-> 14, mi |-> 15]))

\* The dates a text writes with an explicit four-digit year: DD Month YYYY,
\* Month DD, YYYY, DD/MM/YYYY and DD-MM-YYYY, as [y, m, d].
ExplicitYearDates(t) ==
    {[y |-> NumDateTok[t[i]].y, m |-> NumDateTok[t[i]].m, d |-> NumDateTok[t[i]].d] :
        i \in {j \in 1..Len(t) : t[j] \in DOMAIN NumDateTok /\ NumDateTok[t[j]].yd = 4}}
    \cup
    {[y |-> NumTok[t[i + 2]], m |-> MonthOf(t[i + 1]), d |-> LastTwo(t[i])] :
        i \in {j \in 1..(Len(t) - 2) :
                  EndsInDigits(t[j]) /\ IsMonthish(t[j + 1]) /\ FourDigits(t[j + 2])}}
    \cup
    {[y |-> NumTok[t[i + 2]], m |-> MonthOf(t[i]),
      d |-> IF IsNum(t[i + 1]) THEN NumTok[t[i + 1]] ELSE CommaDayTok[t[i + 1]]] :
        i \in {j \in 1..(Len(t) - 2) :
                  /\ IsMonthish(t[j]) /\ FourDigits(t[j + 2])
                  /\ IsNum(t[j + 1]) \/ t[j + 1] \in DOMAIN CommaDayTok}}

\* C27: when the text handed to IkeaScraper.parse_delivery_date writes a
\* date with an explicit four-digit year (and none of the relative forms),
\* the result is that date with that year, or None: the fragment is not
\* re-read by the two-digit-year or the yearless pattern as a date of
\* another year.
C27_ExplicitYearKept ==
    (/\ p_pc = "returned" /\ p_fn = "ikea"
     /\ ExplicitYearDates(LowerText(p_text)) # {}
     /\ ~IkeaDelivered(LowerText(p_text))
     /\ ~Contains(LowerText(p_text), "today") /\ ~Contains(LowerText(p_text), "tomorrow")
     /\ RelativeDaysPos(p_text) = 0 /\ FirstWeekday(LowerText(p_text)) = 0)
    => \/ p_result = NoMatch
       \/ \E x \in ExplicitYearDates(LowerText(p_text)) :
             p_result = Ret(Date(x.y, x.m, x.d), None)

----------------------------------------------------------------------------
(* Properties of the paging of AmazonScraper.scrape_orders.                *)

\* A step of the paging: the page number or the click count changes.
PagingStep == s_page' # s_page \/ s_clicks' # s_clicks

\* C28: AmazonScraper.scrape_orders always terminates; it reads at most
\* max_pages pages and clicks 'next' at most max_pages - 1 times; a click
\* either brings the next page or ends the loop, so that paging stops as soon
\* as the control is disabled, missing or not clickable; and the orders
\* collected so far stay in the list that is returned.
C28_PagingBounded ==
    /\ [](s_loop = AmazonLoop =>
             /\ s_page >= 1 /\ s_page <= max_pages
             /\ s_clicks <= max_pages - 1 /\ s_clicks <= s_page)
    /\ [][s_loop = AmazonLoop =>
             /\ PagingStep =>
                   /\ s_clicks' = s_clicks + 1
                   /\ \/ s_page' = s_page + 1 /\ s_pc' = "loop"
                      \/ s_page' = s_page /\ s_pc' = "returned"
             /\ s_pc = "returned" => s_pc' = "returned" /\ ~PagingStep
             /\ Len(s_orders') >= Len(s_orders)
             /\ SubSeq(s_orders', 1, Len(s_orders)) = s_orders]_vars
    /\ (s_loop = AmazonLoop) ~> (s_loop = AmazonLoop /\ s_pc = "returned")

\* C28 witness: the loop returned orders after reading max_pages pages with
\* max_pages - 1 clicks.
C28_Witness ==
    /\ s_loop = AmazonLoop /\ s_pc = "returned"
    /\ s_page = max_pages /\ s_clicks = max_pages - 1 /\ s_orders # <<>>

----------------------------------------------------------------------------
(* Properties of the document Scraper.generate_ics_file writes.            *)

\* The property names of the lines of one event record.
RecordNames == {"UID", "DTSTART;VALUE=DATE", "SUMMARY", "DESCRIPTION", "DTSTAMP"}

IsBegin(l) == l = Line("BEGIN", <<"VEVENT">>)

IsEnd(l) == l = Line("END", <<"VEVENT">>)

\* The number of lines of the sequence that satisfy P.
Count(lines, P(_)) == Cardinality({i \in 1..Len(lines) : P(lines[i])})

\* Lines i..j are one complete record: BEGIN:VEVENT, property lines only,
\* END:VEVENT, with exactly one UID, one date-only DTSTART, one SUMMARY and
\* one DTSTAMP line.
CompleteRecord(lines, i, j) ==
    /\ IsBegin(lines[i]) /\ IsEnd(lines[j])
    /\ \A k \in (i + 1)..(j - 1) : lines[k].name \in RecordNames
    /\ \A n \in {"UID", "DTSTART;VALUE=DATE", "SUMMARY", "DTSTAMP"} :
          Cardinality({k \in (i + 1)..(j - 1) : lines[k].name = n}) = 1
    /\ \A k \in (i + 1)..(j - 1) :
          lines[k].name = "DTSTART;VALUE=DATE" =>
              /\ Len(lines[k].value) = 8
              /\ \A c \in 1..8 : \E n \in 0..9 : lines[k].value[c] = Digit(n)

\* C29: for every order list, also with line breaks in the scraped texts,
\* the document Scraper.generate_ics_file writes starts with BEGIN:VCALENDAR
\* and ends with END:VCALENDAR; it has as many BEGIN:VEVENT and END:VEVENT
\* lines as there are orders with a delivery date; and every line after the
\* header lies in a complete event record with exactly one UID, one
\* date-only DTSTART, one SUMMARY and one DTSTAMP line.
C29_DocumentWellFormed ==
    \A d \in 1..Len(g_docs) :
        g_fn = "Scraper.generate_ics_file" =>
            LET lines == g_docs[d].lines
                n == Len(SelectSeq(g_orders, LAMBDA o : Get(o, "delivery_date")))
            IN  /\ g_docs[d].exc = ""
                /\ Len(lines) >= Len(BaseHeader) + 1
                /\ SubSeq(lines, 1, Len(BaseHeader)) = BaseHeader
                /\ lines[Len(lines)] = Line("END", <<"VCALENDAR">>)
                /\ Count(lines, IsBegin) = n /\ Count(lines, IsEnd) = n
                /\ \A k \in (Len(BaseHeader) + 1)..(Len(lines) - 1) :
                      \E i \in (Len(BaseHeader) + 1)..k, j \in k..(Len(lines) - 1) :
                          CompleteRecord(lines, i, j)

----------------------------------------------------------------------------
(* Properties of the runs that collect nothing.                            *)

\* The run in progress has collected an order or an event.
Collected == all_orders # <<>> \/ scraper.orders # <<>>

\* C30: a run that collects no order or event performs no write: every step
\* that changes a calendar file (the open that truncates it, a write into
\* it) belongs to a run that has collected something and writes a document
\* with an event, so a run without orders leaves the files as the last
\* writing run left them.
C30_NoWriteWithoutOrders ==
    [][files' # files =>
          /\ Collected'
          /\ wr'.file # ""
          /\ \E k \in 1..Len(wr'.doc) : wr'.doc[k].tag = "VEVENT"
          /\ \A f \in FileNames \ {wr'.file} : files'[f] = files[f]]_vars

\* C30 witness: a second run has ended without any order while the file the
\* first run wrote is still there, complete.
C30_Witness ==
    /\ runs = 2 /\ rc_pc = "idle" /\ main_pc = "loop"
    /\ ~Collected
    /\ Events(files["amazon_orders.ics"]) # <<>>
    /\ files = prevDoc

=============================================================================
